---------------------------- MODULE Spec2Model ----------------------------
(***************************************************************************)
(* The daily word-web puzzle generator of PGWAIReader.                     *)
(*                                                                         *)
(* The on-demand function netlify/functions/wordweb.js exists in three     *)
(* revisions in the repository:                                            *)
(*   "A"  src/unnamed/part_000 lines   1-190  (single attempt, throws)     *)
(*   "B"  src/unnamed/part_000 lines 192-385  (50 attempts, CommonJS)      *)
(*   "C"  src/unnamed/part_001                (50 attempts, ESM)           *)
(* canPlace and placeWord are the same in the three; loadWordList,         *)
(* tryGenerate and generatePuzzleForDate differ and are modelled per       *)
(* revision.  Every Math.floor(rand() * n) is a draw from 0..n-1.          *)
(*                                                                         *)
(* The machine runs one call: either handler(event), which reads the word  *)
(* file through loadWordList and then calls generatePuzzleForDate, or      *)
(* generatePuzzleForDate(dateStr, allWords) called with a word list of     *)
(* its own.                                                                *)
(***************************************************************************)
EXTENDS Integers, Sequences, FiniteSets, TLC

\* ------------------------------------------------------------------ sizes
\* The program's sizes, scaled down (the program's values in comments).
N           == 3    \* const N = 12                      (grid side)
K           == 4    \* pick.length < 6, uniq.length < 6  (words per puzzle)
MaxTries    == 2    \* maxTries = 800                    (tries per placeWord call)
MaxAttempts == 2    \* attempt < 50                      (attempts per build)
\* w.length >= 4 && w.length <= 12: from a third of the grid side to the side.
MinLen      == N \div 3
MaxLen      == N

Null == "null"      \* an empty grid cell, a missing desiredType, a null return

Variants == {"A", "B", "C"}
Retrying == {"B", "C"}     \* the revisions with tryGenerate and attempt salts

\* A..Z, of which randLetter draws one: two letters stand for the alphabet.
Alphabet == {"A", "B"}

Coord == 0 .. (N - 1)
Cells == Coord \X Coord

\* ------------------------------------------------------------- directions
DIRS ==
  << [dx |->  1, dy |->  0, type |-> "H"],
     [dx |-> -1, dy |->  0, type |-> "H"],
     [dx |->  0, dy |->  1, type |-> "V"],
     [dx |->  0, dy |-> -1, type |-> "V"],
     [dx |->  1, dy |->  1, type |-> "D"],
     [dx |-> -1, dy |-> -1, type |-> "D"],
     [dx |->  1, dy |-> -1, type |-> "D"],
     [dx |-> -1, dy |->  1, type |-> "D"] >>

targetTypes == << "H", "V", "D" >>

\* ------------------------------------------------------- normalize & parse
\* toUpperCase on the characters the inputs use; other characters map to
\* themselves.
Upper(c) ==
  CASE c = "a" -> "A"
    [] c = "b" -> "B"
    [] OTHER   -> c

RECURSIVE MapUpper(_)
MapUpper(w) ==
  IF w = << >> THEN << >> ELSE << Upper(Head(w)) >> \o MapUpper(Tail(w))

IsAZ(c) == c \in Alphabet

\* String(w || "").toUpperCase().replace(/[^A-Z]/g, "")
normalizeWord(w) == SelectSeq(MapUpper(w), IsAZ)

RECURSIVE MapNormalize(_)
MapNormalize(ts) ==
  IF ts = << >> THEN << >>
  ELSE << normalizeWord(Head(ts)) >> \o MapNormalize(Tail(ts))

InSeq(w, s) == \E i \in 1 .. Len(s) : s[i] = w

\* Array.from(new Set(words)): first occurrences, in order.
RECURSIVE Uniq(_)
Uniq(ws) ==
  IF ws = << >> THEN << >>
  ELSE LET init == Uniq(SubSeq(ws, 1, Len(ws) - 1))
           w    == ws[Len(ws)]
       IN  IF InSeq(w, init) THEN init ELSE Append(init, w)

Eligible(w) == w # << >> /\ Len(w) >= MinLen /\ Len(w) <= MaxLen

\* split, map(normalizeWord), filter(Boolean), filter(length), de-dup
ParseWords(tokens) == Uniq(SelectSeq(MapNormalize(tokens), Eligible))

\* ------------------------------------------------------------------ errors
\* An error is its message: the template and the values interpolated in it.
NoWord == << >>
Msg(text, word, size, found) ==
  [text |-> text, word |-> word, size |-> size, found |-> found]
NoError       == Msg("none", NoWord, 0, -1)
ErrNotFound   == Msg("words.txt not found", NoWord, 0, -1)
ErrENOENT     == Msg("ENOENT", NoWord, 0, -1)
ErrNotEnough(n) == Msg("Not enough eligible words", NoWord, 0, n)
ErrPicker     == Msg("Internal picker failed to select 6 words", NoWord, 0, -1)
ErrFailedToPlace(w) == Msg("Failed to place word", w, 0, -1)
ErrUnable     == Msg("Unable to place 6 words after multiple attempts", NoWord, 0, -1)

NoPuzzle == [kind |-> "none"]

\* ----------------------------------------------------------------- shuffle
Swap(a, i, j) == [a EXCEPT ![i] = a[j], ![j] = a[i]]

\* The draws of one seededShuffle of n entries: for i = n-1 .. 1 the index
\* j = Math.floor(rand() * (i + 1)), one of 0..i.
ShuffleDraws(n) ==
  { js \in [1 .. (n - 1) -> 0 .. (n - 1)] : \A i \in 1 .. (n - 1) : js[i] <= i }

RECURSIVE ShuffleFrom(_, _, _)
ShuffleFrom(a, i, js) ==
  IF i <= 0 THEN a ELSE ShuffleFrom(Swap(a, i + 1, js[i] + 1), i - 1, js)

\* const a = arr.slice(); for (i = a.length - 1; i > 0; i--) swap a[i], a[j]
seededShuffle(arr, js) == ShuffleFrom(arr, Len(arr) - 1, js)

\* for (i = 0; i < pool.length && pick.length < 6; i++)
\*   if (!pick.includes(w)) pick.push(w)
RECURSIVE PickFrom(_, _, _)
PickFrom(pool, i, acc) ==
  IF i > Len(pool) \/ Len(acc) >= K THEN acc
  ELSE PickFrom(pool, i + 1,
                IF InSeq(pool[i], acc) THEN acc ELSE Append(acc, pool[i]))

\* A pick of the first entries of the pool, whether they repeat or not.
PickRepeating(pool) == SubSeq(pool, 1, IF Len(pool) < K THEN Len(pool) ELSE K)

PickWords(pool) == PickFrom(pool, 1, << >>)

\* --------------------------------------------------------------- placement
InBounds(x, y) == x >= 0 /\ y >= 0 /\ x < N /\ y < N

\* The cells of a word of length len laid from (x, y) in direction (dx, dy).
Line(x, y, dx, dy, len) ==
  [i \in 1 .. len |-> << x + dx * (i - 1), y + dy * (i - 1) >>]

\* A canPlace that lets a word cross a cell holding the same letter.
canPlaceMatching(g, word, x, y, dx, dy) ==
  \A i \in 1 .. Len(word) :
     LET xx == x + dx * (i - 1)
         yy == y + dy * (i - 1)
     IN  /\ InBounds(xx, yy)
         /\ g[<< xx, yy >>] \in {Null, word[i]}

\* A canPlace that checks the bounds only.
canPlaceInBounds(g, word, x, y, dx, dy) ==
  \A i \in 1 .. Len(word) :
     InBounds(x + dx * (i - 1), y + dy * (i - 1))

\* for each i: xx, yy in bounds and grid[yy][xx] === null
canPlace(g, word, x, y, dx, dy) ==
  \A i \in 1 .. Len(word) :
     LET xx == x + dx * (i - 1)
         yy == y + dy * (i - 1)
     IN  /\ InBounds(xx, yy)
         /\ g[<< xx, yy >>] = Null

\* The writes of placeWord once canPlace holds: grid[yy][xx] = word[i].
WriteWord(g, word, x, y, dx, dy) ==
  LET line == Line(x, y, dx, dy, Len(word))
  IN  [c \in Cells |->
         IF \E i \in 1 .. Len(word) : line[i] = c
         THEN word[CHOOSE i \in 1 .. Len(word) : line[i] = c]
         ELSE g[c]]

\* desiredType ? DIRS.filter(d => d.type === desiredType) : DIRS.slice()
HasType(ty) == { i \in 1 .. Len(DIRS) : DIRS[i].type = ty }
Directions(desiredType) ==
  IF desiredType = Null THEN 1 .. Len(DIRS) ELSE HasType(desiredType)

EmptyGrid == [c \in Cells |-> Null]

\* Rows that keep the null cells.
RowsUnfilled(g, fill) ==
  [y \in 1 .. N |-> [x \in 1 .. N |-> g[<< x - 1, y - 1 >>]]]

\* Rows in which every cell is drawn anew, a placed letter giving way to
\* another one.
RowsAllDrawn(g, fill) ==
  [y \in 1 .. N |->
     [x \in 1 .. N |->
        LET c == << x - 1, y - 1 >>
        IN  IF g[c] = Null THEN fill[c]
            ELSE CHOOSE a \in Alphabet : a # g[c]]]

\* grid.map(row => row.map(ch => ch === null ? randLetter() : ch).join(""))
Rows(g, fill) ==
  [y \in 1 .. N |->
     [x \in 1 .. N |->
        LET c == << x - 1, y - 1 >>
        IN  IF g[c] = Null THEN fill[c] ELSE g[c]]]

Puzzle(rows, answers) ==
  [kind |-> "puzzle", theme |-> "Wodehouse Sampler", size |-> N,
   grid |-> rows, answers |-> answers]

\* ------------------------------------------------------------ loadWordList
IsMissing(in) == in.kind = "missing"
\* !raw: no file was read, or the file is the empty string (whose split is
\* the single empty token).
IsFalsyRaw(in) == in.kind = "missing" \/ in.tokens = << << >> >>

Loaded(words) == [ok |-> TRUE, words |-> words, err |-> NoError]
Thrown(e)     == [ok |-> FALSE, words |-> << >>, err |-> e]

\* Revision A: readFileSync throws on a missing file; no size check.
loadWordListA(in) ==
  IF IsMissing(in) THEN Thrown(ErrENOENT) ELSE Loaded(ParseWords(in.tokens))

\* Revisions B and C: tryReadFile, then uniq.length < 6 throws.
loadWordListBC(in) ==
  IF IsFalsyRaw(in) THEN Thrown(ErrNotFound)
  ELSE LET uniq == ParseWords(in.tokens)
       IN  IF Len(uniq) < K THEN Thrown(ErrNotEnough(Len(uniq)))
           ELSE Loaded(uniq)

loadWordList(v, in) == IF v = "A" THEN loadWordListA(in) ELSE loadWordListBC(in)

\* ------------------------------------------------------------------ inputs
TextIn(tokens)  == [kind |-> "text",    tokens |-> tokens, words |-> << >>]
MissingIn       == [kind |-> "missing", tokens |-> << >>,  words |-> << >>]
DirectIn(words) == [kind |-> "direct",  tokens |-> << >>,  words |-> words]

\* words.txt with K eligible unique words (ABB, BAB, A, B) among a
\* duplicate, an over-long token and an empty line.
RawFull ==
  << << "a", "b", "b" >>, << "B", "-", "A", "B" >>, << "a" >>, << "B" >>,
     << "A", "B", "B" >>, << "A", "B", "A", "B" >>, << >> >>
\* words.txt with two eligible unique words.
RawShort == << << "a", "b", "b" >>, << "b", "-", "a", "b" >>, << "A", "B", "B" >> >>
\* The empty words.txt.
RawEmpty == << << >> >>
\* Word lists handed to generatePuzzleForDate directly.  ListShort: a
\* duplicate, and fewer than K unique words.  ListTight: K unique words with
\* more letters than the grid has cells.
ListShort == << << "A", "B", "B" >>, << "A", "B", "B" >>, << "B", "A", "B" >> >>
ListTight ==
  << << "A", "B", "B" >>, << "B", "A", "B" >>, << "B", "B", "A" >>,
     << "A", "B" >> >>

Files == { TextIn(RawFull), TextIn(RawShort), TextIn(RawEmpty), MissingIn }
Lists == { DirectIn(ListShort), DirectIn(ListTight) }

\* The runs of handler(event): revision C on every word file; revisions A
\* and B, which share canPlace, placeWord and the fill with C, on the files
\* that reach the code in which they differ from C (loadWordList, the short
\* pick, the unplaceable word).
Runs == ({"C"} \X Files) \cup ({"A", "B"} \X (Files \ {TextIn(RawFull)}))

\* The runs of generatePuzzleForDate(dateStr, allWords) called on its own.
Calls ==
  (Variants \X {DirectIn(ListShort)})
    \cup ({"C"} \X {DirectIn(ListTight)})

\* ------------------------------------------------------------------- state
VARIABLES
  variant,     \* the revision of wordweb.js that runs
  input,       \* the call's input: the word file, or a word list
  pc,          \* "handler" | "loop" | "place" | "fill" | "done"
  allWords,    \* generatePuzzleForDate's allWords
  attempt,     \* generatePuzzleForDate's loop variable (the attempt salt)
  pick,        \* tryGenerate's pick
  grid,        \* tryGenerate's grid
  k,           \* the index of the word being placed (0-based, as in the code)
  desired,     \* the running placeWord call's desiredType
  t,           \* the running placeWord call's loop variable
  usedTypes,   \* tryGenerate's usedTypes
  ret,         \* what the call returned (NoPuzzle until it returns)
  err,         \* what the call threw (NoError until it throws)
  placed,      \* history: where placeWord wrote each word of this attempt
  wordTries,   \* history (when counting): the tries made so far on the
               \* word being placed
  counting,    \* whether the tries are counted in this run
  attemptTries, \* history (when counting): the tries made so far in the
               \* running attempt
  salts        \* history: the tryGenerate calls made, each with its
               \* attemptSalt and how it ended ("running" | "null" |
               \* "throw" | "rejected" | "puzzle")

wvars == << variant, input, pc, allWords, attempt, pick, grid, k, desired, t,
           usedTypes, ret, err, placed, wordTries, counting, attemptTries,
           salts >>

\* The state of scripts/wordweb-build.mjs (buildPuzzle).
VARIABLES
  bpc,         \* "idle" | "start" | "word" | "bent" | "fill" | "done"
  bInput,      \* buildPuzzle's rawWords and size
  answers,     \* buildPuzzle's answers
  order,       \* buildPuzzle's order
  wi,          \* the position in order of the word being placed (from 1)
  bgrid,       \* buildPuzzle's grid
  maxTurns,    \* the running tryPlaceBent call's maxTurns
  startCells,  \* its startCells that are still to be tried
  dirOrder,    \* its dirOrder
  stack,       \* its running dfs calls, the innermost last
  bret,        \* what buildPuzzle (or tryPlaceBent, called on its own)
               \* returned
  berr,        \* what buildPuzzle threw
  bplaced,     \* history: the placements committed, each with its word, its
               \* path, the engine, maxTurns and the grid before the commit
  tried        \* history: the engines called for the word being placed

bvars == << bpc, bInput, answers, order, wi, bgrid, maxTurns, startCells,
            dirOrder, stack, bret, berr, bplaced, tried >>

\* Two calls of generatePuzzleForDate in one process, with the same
\* arguments.
VARIABLES
  draws,       \* the PRNG: the stream of rand() values of each seed
  firstRun,    \* what the first of the two calls returned or threw
  runs,        \* the number of calls made so far
  dateStr,     \* the running call's dateStr
  other        \* the call that is not running, of two calls that take
               \* turns: its dateStr and its locals

tvars == << draws, firstRun, runs, dateStr, other >>

\* The state of validateAndRepair (the viewer's check of a puzzle file).
VARIABLES
  json,        \* validateAndRepair's argument
  vpc,         \* "idle" | "enter" | "square" | "rows" | "answers" | "done"
  vtheme,      \* its theme
  vsize,       \* its size (N once the grid is being squared)
  vgrid,       \* its grid
  vi,          \* the row that grid.map's callback is called on next (from 1)
  vret,        \* what it returned ("ok" | "reject") or that it threw
  vfirst,      \* what its call before this one returned
  vpass,       \* the number of calls begun
  vrand        \* history: the rand() calls of the running call

vvars == << json, vpc, vtheme, vsize, vgrid, vi, vret, vfirst, vpass, vrand >>

\* The state of main of scripts/wordweb-build.mjs.
VARIABLES
  mpc,         \* "idle" | "row" | "build" | "end"
  themes,      \* rows: the rows read from the themes file
  optsSize,    \* opts.size
  mi,          \* the position in rows of the loop's row (from 1)
  okCount,     \* main's okCount
  outFiles,    \* the files written, each with its date, in the order written
  logged       \* history: what the loop did with each row it has passed
               \* ("skipped" | "written" | "failed")

mvars == << mpc, themes, optsSize, mi, okCount, outFiles, logged >>

vars == << wvars, bvars, tvars, vvars, mvars >>

NoValue == [theme |-> << >>, size |-> 0, grid |-> << >>, answers |-> << >>]
NoResult == [kind |-> "none", reason |-> "none", value |-> NoValue]

\* validateAndRepair is not running.
ValidIdle ==
  /\ json = << >>
  /\ vpc = "idle"
  /\ vtheme = << >>
  /\ vsize = 0
  /\ vgrid = << >>
  /\ vi = 0
  /\ vret = NoResult
  /\ vfirst = NoResult
  /\ vpass = 0
  /\ vrand = 0

\* main is not running.
MainIdle ==
  /\ mpc = "idle"
  /\ themes = << >>
  /\ optsSize = 0
  /\ mi = 0
  /\ okCount = 0
  /\ outFiles = << >>
  /\ logged = << >>

\* buildPuzzle is not running.
BuildIdle ==
  /\ bpc = "idle"
  /\ bInput = [words |-> << >>, size |-> 0, call |-> "none"]
  /\ answers = << >>
  /\ order = << >>
  /\ wi = 0
  /\ bgrid = << >>
  /\ maxTurns = 0
  /\ startCells = << >>
  /\ dirOrder = << >>
  /\ stack = << >>
  /\ bret = NoPuzzle
  /\ berr = NoError
  /\ bplaced = << >>
  /\ tried = << >>

\* The call with the locals of a call that has just begun; id 0 is for no
\* call.
FreshCall(id, d) ==
  [id |-> id, dateStr |-> d, pc |-> "loop", attempt |-> 0, pick |-> << >>,
   grid |-> EmptyGrid, k |-> 0, desired |-> Null, t |-> 0,
   usedTypes |-> << >>, ret |-> NoPuzzle, err |-> NoError, placed |-> << >>,
   wordTries |-> 0, attemptTries |-> 0, salts |-> << >>]
NoCall == FreshCall(0, "date")

\* No pair of calls is being compared.
TwinIdle ==
  /\ draws = << >>
  /\ firstRun = [ret |-> NoPuzzle, err |-> NoError]
  /\ runs = 0
  /\ dateStr = "date"
  /\ other = NoCall

\* The start of one call of wordweb.js; a is the first attempt salt (0 in
\* generatePuzzleForDate).
WebStartAt(rs, count, a) ==
  /\ \E r \in rs : variant = r[1] /\ input = r[2]
  /\ counting = count
  /\ pc = IF input.kind = "direct" THEN "loop" ELSE "handler"
  /\ allWords = input.words
  /\ attempt = a
  /\ pick = << >>
  /\ grid = EmptyGrid
  /\ k = 0
  /\ desired = Null
  /\ t = 0
  /\ usedTypes = << >>
  /\ ret = NoPuzzle
  /\ err = NoError
  /\ placed = << >>
  /\ wordTries = 0
  /\ attemptTries = 0
  /\ salts = << >>

WebStart(rs, count) == WebStartAt(rs, count, 0)

Start(rs, count) ==
  /\ BuildIdle
  /\ ValidIdle
  /\ MainIdle
  /\ TwinIdle
  /\ WebStart(rs, count)

\* handler(event), reading the word file.
Init == Start(Runs, FALSE)

\* A first placeWord call that has no required class for any word.
DesiredNone(k1) == Null

\* The placeWord call made for the word of index k1: a required class for the
\* first three words, none for the others.
DesiredFor(k1) == IF k1 < 3 THEN targetTypes[k1 + 1] ELSE Null

\* Whether the running placeWord call is the unrestricted retry of one of
\* the first three words.
IsFallback == k < 3 /\ desired = Null

\* tryGenerate's locals are gone once it has returned or thrown: the next
\* tryGenerate call makes its own.
DropFrame ==
  /\ pick' = << >>
  /\ grid' = EmptyGrid
  /\ usedTypes' = << >>
  /\ placed' = << >>
  /\ k' = 0
  /\ desired' = Null
  /\ t' = 0
  /\ wordTries' = 0
  /\ attemptTries' = 0

\* Placement loops that stop after the three words with a required class.
AllPlacedAfterThree(k1, pk) == k1 >= 3 \/ k1 >= Len(pk)

\* Whether both placement loops are over once k1 words are placed:
\* for (k = 0; k < 3; ...) then for (k = 3; k < pick.length; ...), the first
\* running to Math.min(3, pick.length) in revision A.
AllPlaced(k1, pk) == k1 >= Len(pk)

\* A loop for (;;) that no attempt count ends.
AttemptsLeftAlways(att) == TRUE

\* for (let attempt = 0; attempt < 50; attempt++)
AttemptsLeft(att) == att < MaxAttempts

\* A call tryGenerate(dateStr, allWords) that leaves attemptSalt to its
\* default of 0.
SaltDefault(att) == 0

\* The salt generatePuzzleForDate passes in its attempt-th iteration:
\* tryGenerate(dateStr, allWords, attempt).
SaltOf(att) == att

Call(salt, how) == [salt |-> salt, outcome |-> how]
\* The history with the running call ended.
Ended(how) ==
  IF salts = << >> THEN salts
  ELSE [salts EXCEPT ![Len(salts)].outcome = how]

\* ----------------------------------------------------------------- handler
\* handler: const words = loadWordList(); then generatePuzzleForDate(date,
\* words); a throw ends the call with the error (status 500).
Handler ==
  /\ pc = "handler"
  /\ UNCHANGED << bvars, tvars, vvars, mvars >>
  /\ LET r == loadWordList(variant, input)
     IN  IF r.ok
         THEN /\ allWords' = r.words
              /\ pc' = "loop"
              /\ err' = err
         ELSE /\ allWords' = allWords
              /\ pc' = "done"
              /\ err' = r.err
  /\ UNCHANGED << variant, input, attempt, pick, grid, k, desired, t,
                  usedTypes, ret, placed, wordTries, counting, attemptTries, salts >>

\* --------------------------------------------------------------- tryGenerate
\* What tryGenerate does with a pick of fewer than K words.
\*   A: nothing (there is no check)   B: return null   C: throw
ShortPick(v) ==
  CASE v = "A" -> "proceed"
    [] v = "B" -> "null"
    [] v = "C" -> "throw"

\* What follows a word that neither placeWord call could place.
\*   A: throw, naming the word   B, C: return null
Unplaceable(v) == IF v = "A" THEN "throw" ELSE "null"

\* What the caller's array holds after a shuffle in place.
ArgShuffledInPlace(arr, a) == a

\* const a = arr.slice(): the shuffle works on a copy, and the caller's
\* array is as it was.
ArgAfterShuffle(arr, a) == arr

\* The head of one attempt: seed, shuffle, pick, fresh grid; then the first
\* placeWord call is set up.  In the retrying revisions this is the loop
\* body's call tryGenerate(dateStr, allWords, attempt).  js are the draws of
\* the shuffle.
SelectWith(js) ==
  /\ pc = "loop"
  /\ variant \in Retrying => AttemptsLeft(attempt)
  /\    LET pool == seededShuffle(allWords, js)
            pk   == PickWords(pool)
            how  == IF Len(pk) # K THEN ShortPick(variant) ELSE "proceed"
        IN  /\ allWords' = ArgAfterShuffle(allWords, pool)
            /\ salts' = IF variant \in Retrying
                        THEN Append(salts,
                               Call(SaltOf(attempt),
                                    IF how = "proceed" THEN "running" ELSE how))
                        ELSE salts
            /\ CASE how = "throw" ->
                      /\ err' = ErrPicker
                      /\ pc' = "done"
                      /\ UNCHANGED << attempt, pick, grid, k, desired, t,
                                      usedTypes, placed >>
                 [] how = "null" ->
                      \* p is null: the loop goes on with the next salt
                      /\ attempt' = attempt + 1
                      /\ pc' = "loop"
                      /\ UNCHANGED << err, pick, grid, k, desired, t,
                                      usedTypes, placed >>
                 [] OTHER ->
                      /\ pick' = pk
                      /\ grid' = EmptyGrid
                      /\ usedTypes' = << >>
                      /\ placed' = << >>
                      /\ k' = 0
                      /\ desired' = DesiredFor(0)
                      /\ t' = 0
                      /\ pc' = IF AllPlaced(0, pk) THEN "fill" ELSE "place"
                      /\ UNCHANGED << err, attempt >>
  /\ UNCHANGED << variant, input, ret, wordTries, counting, attemptTries >>
  /\ UNCHANGED << bvars, tvars, vvars, mvars >>

Select ==
  /\ pc = "loop"
  /\ \E js \in ShuffleDraws(Len(allWords)) : SelectWith(js)

\* One iteration of placeWord's loop draws a direction and a start cell:
\*   dir = directions[Math.floor(rand() * directions.length)]
\*   x = Math.floor(rand() * N);  y = Math.floor(rand() * N)
\* A loop that runs to t <= maxTries.
TriesLeftInclusive(t1) == t1 <= MaxTries

\* for (let t = 0; t < maxTries; t++)
TriesLeft(t1) == t1 < MaxTries

\* PlaceHit is the iteration whose draw fits: placeWord writes the word and
\* returns dir.type to tryGenerate, which pushes it on usedTypes and goes on
\* to the next word (or to the fill).
PlaceHitWith(di, x, y) ==
  /\ pc = "place"
  /\ TriesLeft(t)
  /\    LET dir  == DIRS[di]
            word == pick[k + 1]
        IN  /\ canPlace(grid, word, x, y, dir.dx, dir.dy)
            /\ grid' = WriteWord(grid, word, x, y, dir.dx, dir.dy)
            /\ usedTypes' = Append(usedTypes, dir.type)
            /\ placed' = Append(placed, Line(x, y, dir.dx, dir.dy, Len(word)))
  /\ k' = k + 1
  /\ desired' = DesiredFor(k + 1)
  /\ t' = 0
  /\ pc' = IF AllPlaced(k + 1, pick) THEN "fill" ELSE "place"
  /\ wordTries' = 0
  /\ attemptTries' = IF counting THEN attemptTries + 1 ELSE attemptTries
  /\ UNCHANGED << variant, input, allWords, attempt, pick, ret, err, salts,
                  counting >>
  /\ UNCHANGED << bvars, tvars, vvars, mvars >>

PlaceHit ==
  /\ pc = "place"
  /\ \E di \in Directions(desired), x \in Coord, y \in Coord :
        PlaceHitWith(di, x, y)

\* An iteration that leaves the first letter of the word in an empty cell
\* before it goes on.
ContinueWriting ==
  /\ pc = "place"
  /\ TriesLeft(t)
  /\ \E c \in Cells : grid[c] = Null /\ grid' = [grid EXCEPT ![c] = pick[k + 1][1]]
  /\ t' = t + 1
  /\ wordTries' = IF counting THEN wordTries + 1 ELSE wordTries
  /\ attemptTries' = IF counting THEN attemptTries + 1 ELSE attemptTries
  /\ UNCHANGED << variant, input, allWords, attempt, pick, k, desired,
                  usedTypes, ret, err, placed, salts, pc, counting >>
  /\ UNCHANGED << bvars, tvars, vvars, mvars >>

\* The iteration whose draw does not fit: continue.
Continue ==
  /\ pc = "place"
  /\ UNCHANGED << bvars, tvars, vvars, mvars >>
  /\ TriesLeft(t)
  /\ t' = t + 1
  /\ wordTries' = IF counting THEN wordTries + 1 ELSE wordTries
  /\ attemptTries' = IF counting THEN attemptTries + 1 ELSE attemptTries
  /\ UNCHANGED << variant, input, allWords, attempt, pick, grid, k, desired,
                  usedTypes, ret, err, placed, salts, pc, counting >>

PlaceMissWith(di, x, y) ==
  /\ pc = "place"
  /\ ~canPlace(grid, pick[k + 1], x, y, DIRS[di].dx, DIRS[di].dy)
  /\ Continue

\* PlaceMiss is that iteration with some draw that does not fit.
PlaceMiss ==
  /\ pc = "place"
  /\ ~ \A di \in Directions(desired), x \in Coord, y \in Coord :
          canPlace(grid, pick[k + 1], x, y, DIRS[di].dx, DIRS[di].dy)
  /\ Continue

\* placeWord's loop ran out: it returns null.  For one of the first three
\* words under a required class, tryGenerate calls placeWord again with no
\* class; otherwise the word is unplaceable.
PlaceNull ==
  /\ pc = "place"
  /\ UNCHANGED << bvars, tvars, vvars, mvars >>
  /\ ~TriesLeft(t)
  /\ IF k < 3 /\ desired # Null
     THEN /\ desired' = Null
          /\ t' = 0
          /\ UNCHANGED << pc, attempt, err, pick, grid, k, usedTypes, placed,
                          wordTries, attemptTries, salts >>
     ELSE IF Unplaceable(variant) = "throw"
     THEN /\ err' = ErrFailedToPlace(pick[k + 1])
          /\ pc' = "done"
          /\ attempt' = attempt
          /\ salts' = Ended("throw")
          /\ DropFrame
     ELSE \* tryGenerate returns null: the loop goes on with the next salt
          /\ attempt' = attempt + 1
          /\ pc' = "loop"
          /\ err' = err
          /\ salts' = Ended("null")
          /\ DropFrame
  /\ UNCHANGED << variant, input, allWords, ret, counting >>

EmptyCells(g) == { c \in Cells : g[c] = Null }

\* A loop that returns no value of tryGenerate.
AcceptsNone(p) == FALSE

\* Whether generatePuzzleForDate returns tryGenerate's value p:
\* p && Array.isArray(p.answers) && p.answers.length === 6
Accepts(p) == p.kind = "puzzle" /\ Len(p.answers) = K

\* The random fill, with the letters f drawn for the null cells, and the
\* return of the puzzle.
FillWith(f) ==
  /\ pc = "fill"
  /\    LET p == Puzzle(Rows(grid, f), pick)
        IN  IF variant \in Retrying /\ ~Accepts(p)
            THEN /\ attempt' = attempt + 1
                 /\ pc' = "loop"
                 /\ ret' = ret
                 /\ salts' = Ended("rejected")
                 /\ DropFrame
            ELSE \* the call is over; the frame is kept as history
                 /\ ret' = p
                 /\ pc' = "done"
                 /\ attempt' = attempt
                 /\ salts' = Ended("puzzle")
                 /\ UNCHANGED << pick, grid, usedTypes, placed, k, desired, t,
                                 wordTries, attemptTries >>
  /\ UNCHANGED << variant, input, allWords, err, counting >>
  /\ UNCHANGED << bvars, tvars, vvars, mvars >>

Fill ==
  /\ pc = "fill"
  /\ \E f \in [EmptyCells(grid) -> Alphabet] : FillWith(f)

\* generatePuzzleForDate's loop ran out: throw.
Exhausted ==
  /\ pc = "loop"
  /\ UNCHANGED << bvars, tvars, vvars, mvars >>
  /\ variant \in Retrying
  /\ ~AttemptsLeft(attempt)
  /\ err' = ErrUnable
  /\ pc' = "done"
  /\ UNCHANGED << variant, input, allWords, attempt, pick, grid, k, desired,
                  t, usedTypes, ret, placed, wordTries, counting, attemptTries, salts >>

Next ==
  Handler \/ Select \/ PlaceHit \/ PlaceMiss \/ PlaceNull \/ Fill \/ Exhausted

Spec == Init /\ [][Next]_vars

\* generatePuzzleForDate(dateStr, allWords) called on its own, with the tries
\* of the whole call counted.
InitCall == Start(Calls, TRUE)
NextCall == Select \/ PlaceHit \/ PlaceMiss \/ PlaceNull \/ Fill \/ Exhausted
CallSpec == InitCall /\ [][NextCall]_vars

\* ======================================================= wordweb-build.mjs
\* buildPuzzle(date, theme, rawWords, size, seedStr) of the batch builder.
BentTurns == 2      \* tryPlaceBent(grid, w, rnd, 2)
LaxTurns  == 3      \* tryPlaceBent(grid, w, rnd, 3)
Dot == "."

BuildDIRS ==
  << << 1, 0 >>, << 0, 1 >>, << -1, 0 >>, << 0, -1 >>,
     << 1, 1 >>, << 1, -1 >>, << -1, 1 >>, << -1, -1 >> >>

inBounds(x, y, n) == x >= 0 /\ y >= 0 /\ x < n /\ y < n

\* String(s).toUpperCase().replace(/[^A-Z]/g, "")
norm(w) == SelectSeq(MapUpper(w), IsAZ)
MapNorm(ws) == [i \in 1 .. Len(ws) |-> norm(ws[i])]
Boolean(w) == w # << >>

\* shuffle(arr, rnd), with js[i] the draw Math.floor(rnd() * (i + 1)).
shuffle(arr, js) == ShuffleFrom(arr, Len(arr) - 1, js)

\* .sort((a, b) => b.length - a.length): longer words first, words of one
\* length in the order they had.
InsertByLength(acc, w) ==
  LET p == Cardinality({ i \in 1 .. Len(acc) : Len(acc[i]) >= Len(w) })
  IN  SubSeq(acc, 1, p) \o << w >> \o SubSeq(acc, p + 1, Len(acc))
RECURSIVE SortFrom(_, _, _)
SortFrom(a, i, acc) ==
  IF i > Len(a) THEN acc ELSE SortFrom(a, i + 1, InsertByLength(acc, a[i]))
SortByLength(a) == SortFrom(a, 1, << >>)

BCells(n) == (0 .. (n - 1)) \X (0 .. (n - 1))
Dots(n) == [c \in BCells(n) |-> Dot]

\* Array.from({length: N*N}, (_, k) => [k % N, (k / N) | 0])
AllCells(n) == [kk \in 1 .. (n * n) |-> << (kk - 1) % n, (kk - 1) \div n >>]
Reversed(a) == [i \in 1 .. Len(a) |-> a[Len(a) + 1 - i]]
\* The orders shuffle gives the cells and the directions: two of them.
CellOrders(n) == { AllCells(n), Reversed(AllCells(n)) }
DirOrders ==
  { [i \in 1 .. Len(BuildDIRS) |-> i],
    Reversed([i \in 1 .. Len(BuildDIRS) |-> i]) }

\* A test that lets a word use empty cells only.
TakesEmptyOnly(g, c, ch) == g[c] = Dot

\* A test that lets a word use any cell.
TakesAny(g, c, ch) == TRUE

\* Whether a cell can take the letter ch: c === "." or c === ch.
Takes(g, c, ch) == g[c] = Dot \/ g[c] = ch

\* tryPlaceStraight's test of the start (x0, y0) and the direction d.
FitsStraight(g, n, word, x0, y0, d) ==
  \A i \in 1 .. Len(word) :
     LET x == x0 + d[1] * (i - 1)
         y == y0 + d[2] * (i - 1)
     IN  inBounds(x, y, n) /\ Takes(g, << x, y >>, word[i])

\* The cells of the path take the letters of the word in turn (a cell that
\* is twice on the path keeps the later letter):
\*   for (k = 0; k < visited.length; k++) grid[vy][vx] = word[k]
WritePath(g, path, word) ==
  [c \in DOMAIN g |->
     IF InSeq(c, path)
     THEN word[CHOOSE i \in 1 .. Len(path) :
                  path[i] = c /\ \A j \in (i + 1) .. Len(path) : path[j] # c]
     ELSE g[c]]

\* grid[yy][xx] = word[visited.indexOf([xx, yy])]: indexOf compares the
\* fresh array by reference and finds nothing, so that the index is -1 and
\* every cell of the path takes word[-1], which is undefined.
Undefined == "undefined"
WriteByIndexOf(g, path) ==
  [c \in DOMAIN g |-> IF InSeq(c, path) THEN Undefined ELSE g[c]]

\* The commit of dfs: the write through indexOf, then the loop that writes
\* the letters.
Commit(g, path, word) == WritePath(WriteByIndexOf(g, path), path, word)

\* A visited test that compares the cells by reference, as indexOf does: it
\* never matches.
RevisitsByReference(c, visited) == FALSE

\* visited.some(([vx, vy]) => vx === nx && vy === ny)
Revisits(c, visited) == InSeq(c, visited)

\* A turn test that lets a path turn once more than maxTurns.
OverBudgetLax(turned, turns, mt) == turned /\ turns > mt

\* turned && turns >= maxTurns
OverBudget(turned, turns, mt) == turned /\ turns >= mt

\* An engine called for a word, and a placement it committed.
Engine(name, turns) == [engine |-> name, maxTurns |-> turns]
Placement(word, path, eng, before) ==
  [word |-> word, path |-> path, engine |-> eng.engine,
   maxTurns |-> eng.maxTurns, before |-> before]

StraightPath(x0, y0, d, len) ==
  [i \in 1 .. len |-> << x0 + d[1] * (i - 1), y0 + d[2] * (i - 1) >>]

\* A running dfs call: the cells visited so far (the last one is (x, y), and
\* idx is their number less one), turns, usedDir (0 for null, else the
\* index in DIRS) and the position j in dirOrder its loop is at.
Frame(visited, turns, usedDir, j) ==
  [visited |-> visited, turns |-> turns, usedDir |-> usedDir, j |-> j]

ErrLonger(w, n) == Msg("Word longer than grid size", w, n, -1)

\* grid.map(r => r.join(""))
BuildRows(g, n) ==
  [y \in 1 .. n |-> [x \in 1 .. n |-> g[<< x - 1, y - 1 >>]]]
Built(rows, ans, n) ==
  [kind |-> "puzzle", theme |-> "theme", size |-> n, grid |-> rows,
   answers |-> ans]

\* rawWords of three words that cross, of a word longer than the grid, and
\* of words that do not all fit.
BuildInputs ==
  { [words |-> << << "a", "b", "a" >>, << "b", "-", "b", "b" >>,
                  << "a", "a", "a" >> >>, size |-> N,
     call |-> "buildPuzzle"],
    [words |-> << << "a", "b" >>, << "a", "b", "a" >>, << "-" >> >>,
     size |-> N - 1, call |-> "buildPuzzle"],
    [words |-> << << "b", "b" >>, << "B", "B" >>, << "a", "a" >> >>,
     size |-> N - 1, call |-> "buildPuzzle"] }

\* wordweb.js is not running.
WebIdle ==
  /\ variant = "none"
  /\ input = MissingIn
  /\ pc = "idle"
  /\ allWords = << >>
  /\ attempt = 0
  /\ pick = << >>
  /\ grid = EmptyGrid
  /\ k = 0
  /\ desired = Null
  /\ t = 0
  /\ usedTypes = << >>
  /\ ret = NoPuzzle
  /\ err = NoError
  /\ placed = << >>
  /\ wordTries = 0
  /\ counting = FALSE
  /\ attemptTries = 0
  /\ salts = << >>

InitBuild ==
  /\ WebIdle
  /\ ValidIdle
  /\ MainIdle
  /\ TwinIdle
  /\ bplaced = << >>
  /\ tried = << >>
  /\ bpc = "start"
  /\ bInput \in BuildInputs
  /\ answers = << >>
  /\ order = << >>
  /\ wi = 0
  /\ bgrid = << >>
  /\ maxTurns = 0
  /\ startCells = << >>
  /\ dirOrder = << >>
  /\ stack = << >>
  /\ bret = NoPuzzle
  /\ berr = NoError

\* The head of buildPuzzle: the seeded rnd, the grid of dots, the answers
\* and the order in which they are placed.
BuildStart ==
  /\ bpc = "start"
  /\ LET ans == SelectSeq(MapNorm(bInput.words), Boolean)
     IN  /\ answers' = ans
         /\ \E js \in ShuffleDraws(Len(ans)) :
               order' = SortByLength(shuffle(ans, js))
         /\ bpc' = IF ans = << >> THEN "fill" ELSE "word"
  /\ bgrid' = Dots(bInput.size)
  /\ wi' = 1
  /\ UNCHANGED << bInput, maxTurns, startCells, dirOrder, stack, bret, berr,
                  bplaced, tried >>
  /\ UNCHANGED << wvars, tvars, vvars, mvars >>

\* continue: the loop over order goes on to the next word, or ends.
NextWord ==
  /\ wi' = wi + 1
  /\ bpc' = IF wi + 1 > Len(order) THEN "fill" ELSE "word"
  /\ maxTurns' = 0
  /\ startCells' = << >>
  /\ dirOrder' = << >>
  /\ stack' = << >>
  /\ tried' = << >>

\* tryPlaceBent returns true: buildPuzzle goes on with the next word; a call
\* of tryPlaceBent on its own is over.
BentTrue ==
  IF bInput.call = "buildPuzzle"
  THEN /\ NextWord
       /\ bret' = bret
  ELSE /\ bpc' = "done"
       /\ bret' = [kind |-> "true"]
       /\ startCells' = << >>
       /\ dirOrder' = << >>
       /\ stack' = << >>
       /\ UNCHANGED << wi, maxTurns, tried >>

\* if (w.length > N) throw
WordTooLong ==
  /\ bpc = "word"
  /\ Len(order[wi]) > bInput.size
  /\ berr' = ErrLonger(order[wi], bInput.size)
  /\ bpc' = "done"
  /\ UNCHANGED << bInput, answers, order, wi, bgrid, maxTurns, startCells,
                  dirOrder, stack, bret, bplaced, tried >>
  /\ UNCHANGED << wvars, tvars, vvars, mvars >>

\* tryPlaceStraight returns true: the first start and direction, in the
\* shuffled orders, at which the word fits are committed.
StraightHit ==
  /\ bpc = "word"
  /\ Len(order[wi]) <= bInput.size
  /\ \E c \in BCells(bInput.size), di \in 1 .. Len(BuildDIRS) :
        /\ FitsStraight(bgrid, bInput.size, order[wi], c[1], c[2],
                        BuildDIRS[di])
        /\ LET path == StraightPath(c[1], c[2], BuildDIRS[di],
                                    Len(order[wi]))
           IN  /\ bgrid' = WritePath(bgrid, path, order[wi])
               /\ bplaced' = Append(bplaced,
                                    Placement(order[wi], path,
                                              Engine("straight", 0), bgrid))
  /\ NextWord
  /\ UNCHANGED << bInput, answers, order, bret, berr >>
  /\ UNCHANGED << wvars, tvars, vvars, mvars >>

\* The head of tryPlaceBent(grid, w, rnd, turns): its two shuffles.
BentCall(turns, before) ==
  /\ maxTurns' = turns
  /\ startCells' \in CellOrders(bInput.size)
  /\ dirOrder' \in DirOrders
  /\ stack' = << >>
  /\ bpc' = "bent"
  /\ tried' = Append(before, Engine("bent", turns))

\* tryPlaceStraight returns false (the word fits nowhere): tryPlaceBent is
\* called with maxTurns 2.
StraightMiss ==
  /\ bpc = "word"
  /\ Len(order[wi]) <= bInput.size
  /\ \A c \in BCells(bInput.size), di \in 1 .. Len(BuildDIRS) :
        ~FitsStraight(bgrid, bInput.size, order[wi], c[1], c[2], BuildDIRS[di])
  /\ BentCall(BentTurns, Append(tried, Engine("straight", 0)))
  /\ UNCHANGED << bInput, answers, order, wi, bgrid, bret, berr, bplaced >>
  /\ UNCHANGED << wvars, tvars, vvars, mvars >>

\* dfs(sx, sy, 0, 0, null, []) for the next start cell: it returns false at
\* once on a cell that cannot take the first letter, commits a word of one
\* letter, and enters its loop otherwise.
BentStart ==
  /\ bpc = "bent"
  /\ stack = << >>
  /\ startCells # << >>
  /\ LET c == Head(startCells)
         w == order[wi]
     IN  IF ~Takes(bgrid, c, w[1])
         THEN /\ startCells' = Tail(startCells)
              /\ UNCHANGED << bgrid, wi, bpc, maxTurns, dirOrder, stack,
                              bret, bplaced, tried >>
         ELSE IF Len(w) = 1
         THEN /\ bgrid' = Commit(bgrid, << c >>, w)
              /\ bplaced' = Append(bplaced,
                                   Placement(w, << c >>,
                                             Engine("bent", maxTurns), bgrid))
              /\ BentTrue
         ELSE /\ stack' = << Frame(<< c >>, 0, 0, 1) >>
              /\ UNCHANGED << bgrid, wi, bpc, maxTurns, dirOrder,
                              startCells, bret, bplaced, tried >>
  /\ UNCHANGED << bInput, answers, order, berr >>
  /\ UNCHANGED << wvars, tvars, vvars, mvars >>

\* One iteration of the loop over dirOrder in the innermost dfs call: a
\* continue, or the call dfs(nx, ny, idx + 1, ...), which commits and
\* returns true through every caller when it holds the last letter.
BentIter ==
  /\ bpc = "bent"
  /\ stack # << >>
  /\ stack[Len(stack)].j <= Len(dirOrder)
  /\ LET top     == stack[Len(stack)]
         w       == order[wi]
         here    == top.visited[Len(top.visited)]
         idx     == Len(top.visited) - 1
         dir     == dirOrder[top.j]
         nx      == here[1] + BuildDIRS[dir][1]
         ny      == here[2] + BuildDIRS[dir][2]
         turned  == top.usedDir # 0 /\ top.usedDir # dir
         skip    == \/ OverBudget(turned, top.turns, maxTurns)
                    \/ ~inBounds(nx, ny, bInput.size)
                    \/ Revisits(<< nx, ny >>, top.visited)
                    \/ ~Takes(bgrid, << nx, ny >>, w[idx + 2])
         visited == Append(top.visited, << nx, ny >>)
         after   == [stack EXCEPT ![Len(stack)].j = top.j + 1]
     IN  IF skip
         THEN /\ stack' = after
              /\ UNCHANGED << bgrid, wi, bpc, maxTurns, dirOrder, startCells,
                              bret, bplaced, tried >>
         ELSE IF idx + 1 = Len(w) - 1
         THEN /\ bgrid' = Commit(bgrid, visited, w)
              /\ bplaced' = Append(bplaced,
                                   Placement(w, visited,
                                             Engine("bent", maxTurns), bgrid))
              /\ BentTrue
         ELSE /\ stack' = Append(after,
                            Frame(visited,
                                  top.turns + (IF turned THEN 1 ELSE 0),
                                  dir, 1))
              /\ UNCHANGED << bgrid, wi, bpc, maxTurns, dirOrder, startCells,
                              bret, bplaced, tried >>
  /\ UNCHANGED << bInput, answers, order, berr >>
  /\ UNCHANGED << wvars, tvars, vvars, mvars >>

\* The innermost dfs call's loop is over: it returns false to its caller,
\* which for the outermost call is the loop over startCells.
BentReturn ==
  /\ bpc = "bent"
  /\ stack # << >>
  /\ stack[Len(stack)].j > Len(dirOrder)
  /\ stack' = SubSeq(stack, 1, Len(stack) - 1)
  /\ startCells' = IF Len(stack) = 1 THEN Tail(startCells) ELSE startCells
  /\ UNCHANGED << bInput, answers, order, wi, bgrid, maxTurns, dirOrder, bpc,
                  bret, berr, bplaced, tried >>
  /\ UNCHANGED << wvars, tvars, vvars, mvars >>

\* tryPlaceBent returns false: in buildPuzzle, after the call with maxTurns
\* 2 comes the one with maxTurns 3, after that one the throw; a call of
\* tryPlaceBent on its own is over.
BentFail ==
  /\ bpc = "bent"
  /\ stack = << >>
  /\ startCells = << >>
  /\ IF bInput.call # "buildPuzzle"
     THEN /\ bret' = [kind |-> "false"]
          /\ bpc' = "done"
          /\ UNCHANGED << berr, maxTurns, startCells, dirOrder, stack, tried >>
     ELSE IF maxTurns = BentTurns
     THEN /\ BentCall(LaxTurns, tried)
          /\ UNCHANGED << berr, bret >>
     ELSE /\ berr' = ErrFailedToPlace(order[wi])
          /\ bpc' = "done"
          /\ UNCHANGED << bret, maxTurns, startCells, dirOrder, stack, tried >>
  /\ UNCHANGED << bInput, answers, order, wi, bgrid, bplaced >>
  /\ UNCHANGED << wvars, tvars, vvars, mvars >>

\* fillDots, and the return of the puzzle.
BuildFill ==
  /\ bpc = "fill"
  /\ \E f \in [{ c \in BCells(bInput.size) : bgrid[c] = Dot } -> Alphabet] :
        bgrid' = [c \in BCells(bInput.size) |->
                    IF bgrid[c] = Dot THEN f[c] ELSE bgrid[c]]
  /\ bret' = Built(BuildRows(bgrid', bInput.size), answers, bInput.size)
  /\ bpc' = "done"
  /\ UNCHANGED << bInput, answers, order, wi, maxTurns, startCells, dirOrder,
                  stack, berr, bplaced, tried >>
  /\ UNCHANGED << wvars, tvars, vvars, mvars >>

NextBuild ==
  \/ BuildStart \/ WordTooLong \/ StraightHit \/ StraightMiss
  \/ BentStart \/ BentIter \/ BentReturn \/ BentFail \/ BuildFill

BuildSpec == InitBuild /\ [][NextBuild]_vars

\* Every build: handler(event), generatePuzzleForDate called on its own and
\* buildPuzzle.
InitAll ==
  \/ Start(Runs \cup (Variants \X {DirectIn(ListShort)}), FALSE)
  \/ InitBuild
NextAll == Next \/ NextBuild
AllSpec == InitAll /\ [][NextAll]_vars

\* =========================================== tryPlaceBent called on its own
\* tryPlaceBent(grid, word, rnd, maxTurns) on a grid of side N: an empty
\* grid, and one in which four cells can take an A, namely (0,0), (1,0),
\* (2,1), which are empty, and (1,1), which holds one.
GridOpen == Dots(N)
GridZigzag ==
  [c \in BCells(N) |->
     IF c \in { << 0, 0 >>, << 1, 0 >>, << 2, 1 >> } THEN Dot
     ELSE IF c = << 1, 1 >> THEN "A"
     ELSE "B"]
BentWords == { << "A", "B", "A", "B" >>, << "A", "A", "A", "A" >> }
BentBudgets == 0 .. BentTurns

InitBent ==
  /\ WebIdle
  /\ ValidIdle
  /\ MainIdle
  /\ TwinIdle
  /\ bpc = "bent"
  /\ \E w \in BentWords :
        /\ bInput = [words |-> << w >>, size |-> N, call |-> "tryPlaceBent"]
        /\ order = << w >>
  /\ answers = << >>
  /\ wi = 1
  /\ bgrid \in { GridOpen, GridZigzag }
  /\ maxTurns \in BentBudgets
  /\ startCells \in CellOrders(N)
  /\ dirOrder \in DirOrders
  /\ stack = << >>
  /\ bret = NoPuzzle
  /\ berr = NoError
  /\ bplaced = << >>
  /\ tried = << Engine("bent", maxTurns) >>

NextBent == BentStart \/ BentIter \/ BentReturn \/ BentFail
BentSpec == InitBent /\ [][NextBent]_vars

\* ================================================= two calls, one process
\* generatePuzzleForDate(dateStr, allWords) called twice with the same
\* arguments.  The PRNG is a function of its seed: draws gives, for each
\* seed, the stream of values rand() returns, a value d standing for the
\* number d / DrawMax of [0, 1); the stream repeats after StreamLen values.
StreamLen == 4     \* the period of mulberry32 (2^32)
DrawMax   == 3     \* the values of rand(): multiples of 1 / 4294967296
Streams == [1 .. StreamLen -> 0 .. (DrawMax - 1)]

\* `${dateStr}|${allWords.length}|${attemptSalt}`
SeedOf(d, len, salt) == << d, len, salt >>
Seeds(len) == { SeedOf("date", len, a) : a \in 0 .. (MaxAttempts - 1) }

\* The PRNGs that are tried: the seeds of a call's attempts give one stream
\* of Streams each, the stream of salt a being that of salt 0 begun a values
\* later.
BegunLater(st, a) == [i \in 1 .. StreamLen |-> st[((i - 1 + a) % StreamLen) + 1]]
Generators(len) ==
  { [sd \in Seeds(len) |-> BegunLater(st, sd[3])] : st \in Streams }

\* The value of the p-th call of rand() (from 0) on the stream st.
RandAt(st, p) == st[(p % StreamLen) + 1]
\* Math.floor(rand() * n)
Floor(d, n) == (d * n) \div DrawMax

\* The draws of seededShuffle: the loop runs i = len-1 .. 1 and makes one
\* draw in each iteration.
ShuffleJs(st, len) ==
  [i \in 1 .. (len - 1) |-> Floor(RandAt(st, len - 1 - i), i + 1)]

\* DIRS.filter(d => d.type === desiredType), or DIRS.slice(): in DIRS' order.
DirectionSeq(desiredType) ==
  SelectSeq([i \in 1 .. Len(DIRS) |-> i],
            LAMBDA i : i \in Directions(desiredType))

\* String.fromCharCode(65 + Math.floor(rand() * 26)), for each null cell in
\* the order of grid.map(row => row.map(...)): row by row, left to right.
Letters == << "A", "B" >>
NullsBefore(g, c) ==
  Cardinality({ d \in EmptyCells(g) :
                  d[2] < c[2] \/ (d[2] = c[2] /\ d[1] < c[1]) })
randLetter(g, st, p) ==
  [c \in EmptyCells(g) |->
     Letters[Floor(RandAt(st, p + NullsBefore(g, c)), Len(Letters)) + 1]]

\* A list of five words, K of which are picked.
ListEasy ==
  << << "A" >>, << "B" >>, << "A", "B" >>, << "B", "A" >>,
     << "A", "B", "B" >> >>
TwinCalls == Retrying \X { DirectIn(ListEasy), DirectIn(ListShort) }
PairCalls == Retrying \X { DirectIn(ListEasy) }

\* The tries of each attempt are counted: they tell how many values of the
\* stream the running tryGenerate call has used.
InitTwin ==
  /\ BuildIdle
  /\ ValidIdle
  /\ MainIdle
  /\ WebStart(TwinCalls, TRUE)
  /\ draws \in Generators(Len(input.words))
  /\ firstRun = [ret |-> NoPuzzle, err |-> NoError]
  /\ runs = 1
  /\ dateStr = "date"
  /\ other = NoCall

\* rand of the running tryGenerate call: mulberry32 seeded from the seed
\* string; and the number of values it has returned so far: those of the
\* shuffle, then three for each placeWord iteration.
TwinStream == draws[SeedOf(dateStr, Len(allWords), SaltOf(attempt))]
\* The position in a stream that goes on from one attempt to the next.
TwinPosCarried ==
  (IF Len(allWords) > 1 THEN Len(allWords) - 1 ELSE 0) + 3 * attemptTries
    + (Len(salts) - 1)

TwinPos ==
  (IF Len(allWords) > 1 THEN Len(allWords) - 1 ELSE 0) + 3 * attemptTries

\* The steps of generatePuzzleForDate with every draw taken from the stream.
TwinSelect ==
  /\ runs > 0
  /\ SelectWith(ShuffleJs(TwinStream, Len(allWords)))

TwinPlace ==
  /\ runs > 0
  /\ pc = "place"
  /\ TriesLeft(t)
  /\ LET directions == DirectionSeq(desired)
         di == directions[Floor(RandAt(TwinStream, TwinPos),
                                Len(directions)) + 1]
         x  == Floor(RandAt(TwinStream, TwinPos + 1), N)
         y  == Floor(RandAt(TwinStream, TwinPos + 2), N)
     IN  IF canPlace(grid, pick[k + 1], x, y, DIRS[di].dx, DIRS[di].dy)
         THEN PlaceHitWith(di, x, y)
         ELSE PlaceMissWith(di, x, y)

TwinPlaceNull ==
  /\ runs > 0
  /\ PlaceNull

TwinFill ==
  /\ runs > 0
  /\ FillWith(randLetter(grid, TwinStream, TwinPos))

TwinExhausted ==
  /\ runs > 0
  /\ Exhausted

\* The first call is over: the second one is made, with the same date and
\* the same array.
TwinAgain ==
  /\ pc = "done"
  /\ runs = 1
  /\ firstRun' = [ret |-> ret, err |-> err]
  /\ runs' = 2
  /\ ret' = NoPuzzle
  /\ err' = NoError
  /\ attempt' = 0
  /\ salts' = << >>
  /\ pc' = "loop"
  /\ DropFrame
  /\ UNCHANGED << variant, input, allWords, counting >>
  /\ UNCHANGED << bvars, draws, dateStr, other, vvars, mvars >>

NextTwin ==
  \/ TwinSelect \/ TwinPlace \/ TwinPlaceNull \/ TwinFill
  \/ TwinExhausted \/ TwinAgain
TwinSpec == InitTwin /\ [][NextTwin]_vars

\* ============================================ the last attempt, on its own
\* tryGenerate(dateStr, allWords, attemptSalt) called with the last salt of
\* the loop, and then generatePuzzleForDate(dateStr, allWords), which gets to
\* that salt after the attempts before it have failed.
InitLast ==
  /\ BuildIdle
  /\ ValidIdle
  /\ MainIdle
  /\ WebStartAt(PairCalls, TRUE, MaxAttempts - 1)
  /\ draws \in Generators(Len(input.words))
  /\ firstRun = [ret |-> NoPuzzle, err |-> NoError]
  /\ runs = 1
  /\ dateStr = "date"
  /\ other = NoCall
LastSpec == InitLast /\ [][NextTwin]_vars

\* ============================================== two calls that take turns
\* Calls of generatePuzzleForDate whose steps interleave: one call runs with
\* its date and its locals, the other waits with its own; allWords is the
\* one array both were given.  The first call of all runs alone.
Dates == { "date", "later" }
PairSeeds(len) ==
  { SeedOf(d, len, a) : d \in Dates, a \in 0 .. (MaxAttempts - 1) }
PairGenerators(len) ==
  { [sd \in PairSeeds(len) |->
       BegunLater(st, sd[3] + (IF sd[1] = "date" THEN 0 ELSE 2))] :
    st \in Streams }

InitPair ==
  /\ BuildIdle
  /\ ValidIdle
  /\ MainIdle
  /\ WebStart(PairCalls, TRUE)
  /\ draws \in PairGenerators(Len(input.words))
  /\ firstRun = [ret |-> NoPuzzle, err |-> NoError]
  /\ runs = 1
  /\ dateStr = "date"
  /\ other = NoCall

\* A grid that all calls would share.
GridOfModule(own, last) == last

\* const grid = Array.from(...) in tryGenerate: the grid a call goes on with
\* is the one it made (own), whatever grid the call that ran last holds.
GridOfCall(own, last) == own

\* The call alone is over: two calls begin, the first with the same date.
PairFork ==
  /\ pc = "done"
  /\ runs = 1
  /\ firstRun' = [ret |-> ret, err |-> err]
  /\ runs' = 2
  /\ \E d \in Dates : other' = FreshCall(2, d)
  /\ ret' = NoPuzzle
  /\ err' = NoError
  /\ attempt' = 0
  /\ salts' = << >>
  /\ pc' = "loop"
  /\ DropFrame
  /\ UNCHANGED << variant, input, allWords, counting >>
  /\ UNCHANGED << bvars, draws, dateStr, vvars, mvars >>

\* The running call stops where it is and the other one goes on.
Switch ==
  /\ runs = 2
  /\ other.id # 0
  /\ other.pc # "done"
  /\ other' = [id |-> 3 - other.id, dateStr |-> dateStr, pc |-> pc,
               attempt |-> attempt, pick |-> pick, grid |-> grid, k |-> k,
               desired |-> desired, t |-> t, usedTypes |-> usedTypes,
               ret |-> ret, err |-> err, placed |-> placed,
               wordTries |-> wordTries, attemptTries |-> attemptTries,
               salts |-> salts]
  /\ dateStr' = other.dateStr
  /\ pc' = other.pc
  /\ attempt' = other.attempt
  /\ pick' = other.pick
  /\ grid' = GridOfCall(other.grid, grid)
  /\ k' = other.k
  /\ desired' = other.desired
  /\ t' = other.t
  /\ usedTypes' = other.usedTypes
  /\ ret' = other.ret
  /\ err' = other.err
  /\ placed' = other.placed
  /\ wordTries' = other.wordTries
  /\ attemptTries' = other.attemptTries
  /\ salts' = other.salts
  /\ UNCHANGED << variant, input, allWords, counting >>
  /\ UNCHANGED << bvars, draws, firstRun, runs, vvars, mvars >>

NextPair ==
  \/ TwinSelect \/ TwinPlace \/ TwinPlaceNull \/ TwinFill
  \/ TwinExhausted \/ PairFork \/ Switch
PairSpec == InitPair /\ [][NextPair]_vars

\* ================================================== the pick of an attempt
\* generatePuzzleForDate on a list with repeated words and on one without:
\* every outcome of the shuffle is tried; the draws that follow it come from
\* a stream.
ListDup ==
  << << "A" >>, << "B" >>, << "A" >>, << "A", "B" >>, << "B" >>,
     << "B", "A" >> >>
PickCalls == Retrying \X { DirectIn(ListDup), DirectIn(ListEasy) }
PickGenerators(len) ==
  { g \in Generators(len) :
      \A i \in 1 .. 2 : g[SeedOf("date", len, 0)][i] = i - 1 }

InitPick ==
  /\ BuildIdle
  /\ ValidIdle
  /\ MainIdle
  /\ WebStart(PickCalls, TRUE)
  /\ draws \in PickGenerators(Len(input.words))
  /\ firstRun = [ret |-> NoPuzzle, err |-> NoError]
  /\ runs = 1
  /\ dateStr = "date"
  /\ other = NoCall

NextPick ==
  \/ Select \/ TwinPlace \/ TwinPlaceNull \/ TwinFill \/ TwinExhausted
PickSpec == InitPick /\ [][NextPick]_vars

\* ========================================== main of wordweb-build.mjs
\* A row of the themes file as readTSV returns it; a missing column gives
\* an empty date or theme (undefined or "", falsy both).
Row(date, theme, words) == [date |-> date, theme |-> theme, words |-> words]
RowGood   == Row("d1", "t", << << "a", "b" >> >>)
RowOther  == Row("d2", "t", << << "b" >> >>)
RowSameDate == Row("d1", "t", << << "b", "a" >> >>)
RowLong   == Row("d3", "t", << << "a", "b", "a", "b" >> >>)
RowCrowded ==
  Row("d4", "t", << << "b", "b" >>, << "B", "B" >>, << "a", "a" >> >>)
RowNoDate == Row("", "t", << << "a" >> >>)
RowNoTheme == Row("d5", "", << << "a" >> >>)
RowNoWords == Row("d6", "t", << >>)

\* The themes files that are built.
ThemesFiles ==
  { << RowNoDate, RowGood, RowLong, RowOther >>,
    << RowLong, RowNoTheme, RowGood, RowSameDate >>,
    << RowNoWords, RowCrowded, RowOther >>,
    << RowGood >>,
    << >> }

InitMain ==
  /\ WebIdle /\ BuildIdle /\ TwinIdle /\ ValidIdle
  /\ mpc = "row"
  /\ themes \in ThemesFiles
  /\ optsSize = N - 1
  /\ mi = 1
  /\ okCount = 0
  /\ outFiles = << >>
  /\ logged = << >>

\* !r.date || !r.theme || !r.words?.length
LacksData(r) == r.date = "" \/ r.theme = "" \/ Len(r.words) = 0

\* A count of the puzzles built, written or not.
CountedBuilt(c, wrote) == c + 1

\* okCount++ after fs.writeFileSync has returned.
Counted(c, wrote) == IF wrote THEN c + 1 ELSE c

\* The loop's test of the row: a row with missing data is skipped with a
\* warning; for any other row buildPuzzle is called.
MainRow ==
  /\ mpc = "row"
  /\ mi <= Len(themes)
  /\ IF LacksData(themes[mi])
     THEN /\ logged' = Append(logged, "skipped")
          /\ mi' = mi + 1
          /\ UNCHANGED << mpc, bpc, bInput >>
     ELSE /\ bpc' = "start"
          /\ bInput' = [words |-> themes[mi].words, size |-> optsSize,
                        call |-> "buildPuzzle"]
          /\ mpc' = "build"
          /\ UNCHANGED << logged, mi >>
  /\ UNCHANGED << themes, optsSize, okCount, outFiles >>
  /\ UNCHANGED << answers, order, wi, bgrid, maxTurns, startCells, dirOrder,
                  stack, bret, berr, bplaced, tried >>
  /\ UNCHANGED << wvars, tvars, vvars >>

\* buildPuzzle is over.  It returned: the file is written (writeFileSync
\* returns, or throws) and counted.  It threw, or the write threw: catch,
\* and the error is printed.  Then the loop goes on.
MainBuilt ==
  /\ mpc = "build"
  /\ bpc = "done"
  /\ \E wrote \in BOOLEAN :
        /\ wrote => bret.kind = "puzzle"
        /\ bret.kind # "puzzle" => ~wrote
        /\ outFiles' = IF wrote
                       THEN Append(outFiles, [date |-> themes[mi].date,
                                              row |-> mi, puzzle |-> bret])
                       ELSE outFiles
        /\ okCount' = IF bret.kind = "puzzle" THEN Counted(okCount, wrote)
                      ELSE okCount
        /\ logged' = Append(logged, IF wrote THEN "written" ELSE "failed")
  /\ mi' = mi + 1
  /\ mpc' = "row"
  /\ bpc' = "idle"
  /\ bInput' = [words |-> << >>, size |-> 0, call |-> "none"]
  /\ answers' = << >>
  /\ order' = << >>
  /\ wi' = 0
  /\ bgrid' = << >>
  /\ maxTurns' = 0
  /\ startCells' = << >>
  /\ dirOrder' = << >>
  /\ stack' = << >>
  /\ bret' = NoPuzzle
  /\ berr' = NoError
  /\ bplaced' = << >>
  /\ tried' = << >>
  /\ UNCHANGED << themes, optsSize >>
  /\ UNCHANGED << wvars, tvars, vvars >>

\* The loop is over: the count is printed.
MainEnd ==
  /\ mpc = "row"
  /\ mi > Len(themes)
  /\ mpc' = "end"
  /\ UNCHANGED << themes, optsSize, mi, okCount, outFiles, logged >>
  /\ UNCHANGED << wvars, bvars, tvars, vvars >>

NextMain == MainRow \/ MainBuilt \/ MainEnd \/ NextBuild
MainSpec == InitMain /\ [][NextMain]_vars

\* ======================================================= validateAndRepair
\* A JavaScript value as JSON.parse yields it: its type, and the number,
\* the characters of the string or the items of the array it is.  A number
\* that is no integer stands for 2.5.
JsVal(ty, n, int, chars, items) ==
  [t |-> ty, n |-> n, int |-> int, chars |-> chars, items |-> items]
Undef      == JsVal("undefined", 0, FALSE, << >>, << >>)
JsNull     == JsVal("null", 0, FALSE, << >>, << >>)
Num(n)     == JsVal("number", n, TRUE, << >>, << >>)
Frac       == JsVal("number", 2, FALSE, << >>, << >>)
Str(chars) == JsVal("string", 0, FALSE, chars, << >>)
ArrOf(items) == JsVal("array", 0, FALSE, << >>, items)
EmptyObj   == JsVal("object", 0, FALSE, << >>, << >>)

\* The argument: an object with its four fields, or a value of another type
\* (the fields of which are undefined).
Object(theme, size, g, ans) ==
  [t |-> "object", theme |-> theme, size |-> size, grid |-> g,
   answers |-> ans]
NonObject(ty) ==
  [t |-> ty, theme |-> Undef, size |-> Undef, grid |-> Undef,
   answers |-> Undef]

\* v || ..., !v
Truthy(v) ==
  CASE v.t \in { "undefined", "null" } -> FALSE
    [] v.t = "number" -> v.n # 0 \/ ~v.int
    [] v.t = "string" -> v.chars # << >>
    [] OTHER -> TRUE

isArray(x) == x.t = "array"
isString(x) == x.t = "string"
\* Number.isInteger
isInteger(x) == x.t = "number" /\ x.int

\* String(n) for the numbers of the inputs.
NumChars(v) ==
  IF ~v.int THEN << "2", ".", "5" >>
  ELSE CASE v.n = 5 -> << "5" >>
         [] v.n = 7 -> << "7" >>
         [] OTHER   -> << "0" >>

\* String(row || ""), String(a || ""): for the rows and the answers of the
\* inputs, which are undefined, null, numbers and strings.
ToStr(v) ==
  IF ~Truthy(v) THEN << >>
  ELSE IF v.t = "number" THEN NumChars(v) ELSE v.chars

\* String(row || "").toUpperCase().replace(/[^A-Z]/g, "")
normalizeRow(row) == normalizeWord(ToStr(row))
normalizeAns(a) == normalizeWord(ToStr(a))

\* String.prototype.trim
Trim(cs) ==
  LET inked == { i \in 1 .. Len(cs) : cs[i] # " " }
  IN  IF inked = { } THEN << >>
      ELSE SubSeq(cs, CHOOSE i \in inked : \A j \in inked : i <= j,
                      CHOOSE i \in inked : \A j \in inked : j <= i)

Untitled == << "Untitled" >>

\* Math.max(...grid.map((r) => r.length))
MaxRowLen(g) ==
  CHOOSE m \in { Len(g[i]) : i \in 1 .. Len(g) } :
    \A i \in 1 .. Len(g) : Len(g[i]) <= m

\* A slice that cuts nothing.
sliceAll(a, n) == a

\* a.slice(0, n)
slice(a, n) == SubSeq(a, 1, IF Len(a) < n THEN Len(a) ELSE n)

\* An if in the place of the while: one step at most.
MissingOnce(len, n) == IF len < n THEN 1 ELSE 0

\* The number of turns of while (x.length < N): what x lacks of N.
Missing(len, n) == IF len < n THEN n - len ELSE 0

Reject(reason) == [kind |-> "reject", reason |-> reason, value |-> NoValue]
Ok(value) == [kind |-> "ok", reason |-> "none", value |-> value]
\* (json.answers || []).map of a value that has no map function
ThrowTypeError ==
  [kind |-> "throw", reason |-> "map is not a function", value |-> NoValue]

\* The values the fields of the inputs take.
ThemesIn == { Undef, Str(<< " ", "t", " " >>), Num(7) }
SizesIn ==
  { Undef, Num(0), Num(1), Num(2), Num(3), Num(-2), Frac, Str(<< "3" >>) }
GridsIn ==
  { Undef, Str(<< "A", "B" >>), ArrOf(<< >>),
    ArrOf(<< Str(<< >>) >>),
    ArrOf(<< Str(<< "a", "b" >>), Str(<< "A", "-", "B" >>) >>),
    ArrOf(<< Str(<< "a", "b" >>), JsNull >>),
    ArrOf(<< Str(<< "a", "b", "a" >>), Num(5) >>),
    ArrOf(<< Str(<< "A", "B" >>), Str(<< "B", "A" >>), Str(<< "A", "A" >>) >>) }
AnswersIn ==
  { Undef, JsNull, ArrOf(<< >>), Str(<< "A", "B" >>), Num(7), EmptyObj,
    ArrOf(<< Str(<< "a", "b" >>) >>),
    ArrOf(<< Str(<< "-" >>), Str(<< >>), JsNull >>),
    ArrOf(<< Str(<< "a", "-", "b" >>), Num(5), Str(<< "B" >>) >>) }
Jsons ==
  { Object(th, sz, g, ans) :
      th \in ThemesIn, sz \in SizesIn, g \in GridsIn, ans \in AnswersIn }
    \cup { NonObject(ty) : ty \in { "undefined", "null", "number", "string",
                                  "array" } }

InitValid ==
  /\ WebIdle /\ BuildIdle /\ TwinIdle /\ MainIdle
  /\ json \in Jsons
  /\ vpc = "enter"
  /\ vtheme = << >>
  /\ vsize = 0
  /\ vgrid = << >>
  /\ vi = 0
  /\ vret = NoResult
  /\ vfirst = NoResult
  /\ vpass = 1
  /\ vrand = 0

\* The head of validateAndRepair: the object test, theme, size and the grid
\* test.
VEnter ==
  /\ vpc = "enter"
  /\ IF ~(json.t \in { "object", "array" })
     THEN /\ vret' = Reject("Puzzle JSON is not an object.")
          /\ vpc' = "done"
          /\ UNCHANGED << vtheme, vsize, vgrid >>
     ELSE /\ vtheme' = IF isString(json.theme) THEN Trim(json.theme.chars)
                       ELSE Untitled
          /\ vsize' = IF isInteger(json.size) THEN json.size.n ELSE 0
          /\ IF ~isArray(json.grid) \/ Len(json.grid.items) = 0
             THEN /\ vret' = Reject("Missing grid array.")
                  /\ vpc' = "done"
                  /\ vgrid' = vgrid
             ELSE /\ vgrid' = json.grid.items
                  /\ vpc' = "square"
                  /\ vret' = vret
  /\ UNCHANGED << json, vi, vfirst, vpass, vrand >>
  /\ UNCHANGED << wvars, bvars, tvars, mvars >>

\* The rows are normalized, the size is settled, and the grid gets N rows:
\* empty rows are pushed, rows beyond the N-th are cut.
VSquare ==
  /\ vpc = "square"
  /\ LET g  == [i \in 1 .. Len(vgrid) |-> normalizeRow(vgrid[i])]
         sz == IF vsize = 0 \/ vsize < 2
               THEN (IF Len(g) > MaxRowLen(g) THEN Len(g) ELSE MaxRowLen(g))
               ELSE vsize
     IN  /\ vsize' = sz
         /\ vgrid' = slice(g \o [i \in 1 .. Missing(Len(g), sz) |-> << >>], sz)
  /\ vi' = 1
  /\ vpc' = "rows"
  /\ UNCHANGED << json, vtheme, vret, vfirst, vpass, vrand >>
  /\ UNCHANGED << wvars, bvars, tvars, mvars >>

\* grid.map's callback on one row: random letters are appended while the
\* row is short, and a long row is cut.
VRow ==
  /\ vpc = "rows"
  /\ vi <= Len(vgrid)
  /\ LET r == vgrid[vi]
         d == Missing(Len(r), vsize)
     IN  /\ \E letters \in [1 .. d -> Alphabet] :
              vgrid' = [vgrid EXCEPT ![vi] = slice(r \o letters, vsize)]
         /\ vrand' = vrand + d
  /\ vi' = vi + 1
  /\ UNCHANGED << json, vpc, vtheme, vsize, vret, vfirst, vpass >>
  /\ UNCHANGED << wvars, bvars, tvars, mvars >>

\* The answers, and the return.
VAnswers ==
  /\ vpc = "rows"
  /\ vi > Len(vgrid)
  /\ IF Truthy(json.answers) /\ ~isArray(json.answers)
     THEN vret' = ThrowTypeError
     ELSE LET list == IF Truthy(json.answers) THEN json.answers.items
                      ELSE << >>
              answers1 ==
                SelectSeq([i \in 1 .. Len(list) |-> normalizeAns(list[i])],
                          LAMBDA a : a # << >>)
          IN  vret' = IF Len(answers1) = 0 THEN Reject("No answers provided.")
                      ELSE Ok([theme |-> vtheme, size |-> vsize,
                               grid |-> vgrid, answers |-> answers1])
  /\ vpc' = "done"
  /\ UNCHANGED << json, vtheme, vsize, vgrid, vi, vfirst, vpass, vrand >>
  /\ UNCHANGED << wvars, bvars, tvars, mvars >>

\* The value a call returned, as the argument of a call.
AsJson(v) ==
  Object(Str(v.theme), Num(v.size),
         ArrOf([i \in 1 .. Len(v.grid) |-> Str(v.grid[i])]),
         ArrOf([i \in 1 .. Len(v.answers) |-> Str(v.answers[i])]))

\* validateAndRepair is called on the value it returned.
VAgain ==
  /\ vpc = "done"
  /\ vret.kind = "ok"
  /\ vpass = 1
  /\ json' = AsJson(vret.value)
  /\ vfirst' = vret
  /\ vpass' = 2
  /\ vpc' = "enter"
  /\ vtheme' = << >>
  /\ vsize' = 0
  /\ vgrid' = << >>
  /\ vi' = 0
  /\ vret' = NoResult
  /\ vrand' = 0
  /\ UNCHANGED << wvars, bvars, tvars, mvars >>

NextValid == VEnter \/ VSquare \/ VRow \/ VAnswers \/ VAgain
ValidSpec == InitValid /\ [][NextValid]_vars

\* ================================================================= claims
Done     == pc = "done"
Returned == ret.kind = "puzzle"
Threw    == err # NoError

CellsOf(line) == { line[i] : i \in 1 .. Len(line) }

\* The letter of the returned grid at cell c = (x, y): grid[y][x].
RetAt(c) == ret.grid[c[2] + 1][c[1] + 1]

\* Whether a line of cells is straight: each cell is the one before it moved
\* by the same one of the 8 unit directions.
IsStraight(line) ==
  \E di \in 1 .. Len(DIRS) :
     \A i \in 2 .. Len(line) :
        /\ line[i][1] = line[i - 1][1] + DIRS[di].dx
        /\ line[i][2] = line[i - 1][2] + DIRS[di].dy

\* C1.  The cells written for any two distinct answers of an attempt are
\* disjoint, at every moment of the attempt and in the returned puzzle.
C1_NoSharedCell ==
  \A i, j \in 1 .. Len(placed) :
     i # j => CellsOf(placed[i]) \cap CellsOf(placed[j]) = {}

\* A puzzle was returned by revision C whose K answers were all written.
C1_Witness == variant = "C" /\ Returned /\ Len(placed) = K

\* C2.  Every placed answer lies on a straight in-bounds line of the grid
\* and is spelled along it: in the working grid at every moment of the
\* attempt (no later placement changes it) and in the returned rows (the
\* fill does not change it).
C2_AnswersReadable ==
  \A i \in 1 .. Len(placed) :
     /\ Len(placed[i]) = Len(pick[i])
     /\ IsStraight(placed[i])
     /\ \A j \in 1 .. Len(placed[i]) :
           /\ placed[i][j] \in Cells
           /\ grid[placed[i][j]] = pick[i][j]
           /\ Returned => RetAt(placed[i][j]) = pick[i][j]

\* A puzzle was returned by revision C in which the fill wrote a cell.
C2_Witness ==
  variant = "C" /\ Returned /\ Len(placed) = K /\ EmptyCells(grid) # {}

\* C3.  In every puzzle returned by generatePuzzleForDate the first three
\* selected words were placed with the classes Horizontal, Vertical and
\* Diagonal in turn, so each class occurs among the types used.
C3_FirstThreeHVD ==
  (variant = "C" /\ Returned) =>
     /\ Len(usedTypes) >= 3
     /\ \A i \in 1 .. 3 : usedTypes[i] = targetTypes[i]
     /\ \A ty \in {"H", "V", "D"} :
           \E i \in 1 .. Len(usedTypes) : usedTypes[i] = ty

LastCall == salts[Len(salts)]

\* C4.  A value returned by generatePuzzleForDate is the puzzle of one
\* attempt in which all K selected words were placed and every cell was
\* filled: its answers are that attempt's pick, its rows hold the attempt's
\* grid with a letter in every empty cell, and the grid holds nothing but
\* the K words placed in that attempt.  While an attempt runs, and after a
\* throw, nothing has been returned.
C4_ReturnedFromCompleteAttempt ==
  /\ (variant \in Retrying /\ Returned) =>
        /\ Done /\ ~Threw
        /\ salts # << >> /\ LastCall.outcome = "puzzle"
        /\ Len(pick) = K /\ Len(placed) = K /\ ret.answers = pick
        /\ \A c \in Cells :
              /\ RetAt(c) \in Alphabet
              /\ grid[c] # Null =>
                    /\ RetAt(c) = grid[c]
                    /\ \E i \in 1 .. Len(placed) : c \in CellsOf(placed[i])
  /\ (variant \in Retrying /\ ~Done) => ret = NoPuzzle
  /\ (variant \in Retrying /\ Threw) => ret = NoPuzzle

\* Revision C returned the puzzle of its second attempt, the first having
\* ended in null on a word that could not be placed.
C4_Witness ==
  /\ variant = "C" /\ Returned
  /\ Len(salts) = 2 /\ salts[1].outcome = "null"

\* generatePuzzleForDate calls tryGenerate with the salts 0, 1, 2, ...
\* in turn, at most MaxAttempts of them; every call followed by another one
\* ended in null; the puzzle it returns is the one of the last call made,
\* and no call is running once it has ended.
C5_Calls ==
  /\ Len(salts) <= MaxAttempts
  /\ \A i \in 1 .. Len(salts) : salts[i].salt = i - 1
  /\ \A i \in 1 .. Len(salts) - 1 : salts[i].outcome = "null"
  /\ (variant \in Retrying /\ Returned) =>
        /\ salts # << >> /\ LastCall.outcome = "puzzle"
        /\ LastCall.salt = attempt
  /\ Done => \A i \in 1 .. Len(salts) : salts[i].outcome # "running"

\* C5.  The calls of tryGenerate are always as C5_Calls says, and once a
\* puzzle is returned no further call is made.
C5_SaltsInTurn == [] C5_Calls /\ [][Returned => salts' = salts]_vars

\* Revision C returned the puzzle of salt 1 after the call with salt 0
\* failed.
C5_Witness ==
  /\ variant = "C" /\ Returned
  /\ Len(salts) = 2 /\ salts[2].salt = 1 /\ salts[2].outcome = "puzzle"

\* The errors that report that the corpus has too few words.
Insufficiency ==
  { "Not enough eligible words", "Internal picker failed to select 6 words" }

\* The word file was read and normalized (revisions B and C report an empty
\* file as missing before they normalize anything).
Normalized ==
  input.kind = "text" /\ ~(variant \in Retrying /\ IsFalsyRaw(input))

\* C6.  When the normalized corpus holds fewer than K unique words the
\* build ends in an error that reports the insufficiency, and no build
\* returns a puzzle with fewer than K answers.
C6_InsufficiencyReported ==
  /\ (Done /\ Normalized /\ Len(ParseWords(input.tokens)) < K) =>
        err.text \in Insufficiency
  /\ Returned => Len(ret.answers) = K

C8_ExhaustedNamesWordAndSize ==
  ( /\ Done /\ variant \in Retrying
    /\ Len(salts) = MaxAttempts
    /\ \A i \in 1 .. Len(salts) : salts[i].outcome = "null" ) =>
       /\ Threw
       /\ err.word # NoWord
       /\ err.size = N

\* The tries a word is to have had once the next try, if the running
\* placeWord call has one left, is made.
TriesWithNext ==
  wordTries + (IF pc = "place" /\ TriesLeft(t) THEN 1 ELSE 0)

\* C10 as stated.  The tries spent on one word within one attempt never
\* exceed MaxTries, so that an attempt makes at most MaxTries * K tries (and
\* the at most MaxAttempts attempts of a call MaxTries * K * MaxAttempts).
C10_TriesAsStated ==
  /\ TriesWithNext <= MaxTries
  /\ attemptTries <= MaxTries * K
  /\ Len(salts) <= MaxAttempts

\* C10.  One placeWord call makes at most MaxTries tries; the tries spent on
\* one word within one attempt never exceed 2 * MaxTries for the first three
\* words (a call with the required class, then one with none) and MaxTries
\* for the others; an attempt makes at most MaxTries * (K + 3) tries, so that
\* the at most MaxAttempts attempts of one call of generatePuzzleForDate make
\* at most MaxTries * (K + 3) * MaxAttempts.
C10_TriesBounded ==
  /\ t <= MaxTries
  /\ TriesWithNext <= 2 * MaxTries
  /\ k >= 3 => TriesWithNext <= MaxTries
  /\ attemptTries <= MaxTries * (K + 3)
  /\ Len(salts) <= MaxAttempts

\* The second word was placed by the unrestricted call, after the call with
\* the required class had spent its MaxTries tries on it.
C10_Witness ==
  /\ counting /\ Len(usedTypes) = 2
  /\ usedTypes[2] # targetTypes[2]
  /\ attemptTries > MaxTries

\* --------------------------------------------------------------- C9: rank
\* The steps a build has left at most, as a natural number that every step
\* makes smaller.  For wordweb.js: two placeWord calls of MaxTries tries
\* for a word, K words for an attempt, MaxAttempts attempts.
WordSteps == 2 * (MaxTries + 1)
AttemptSteps == 2 + K * WordSteps
CallRank ==
  (IF k < 3 /\ desired # Null THEN MaxTries + 1 ELSE 0) + (MaxTries - t) + 1
AttemptRank ==
  IF pc = "place" THEN 1 + (Len(pick) - k - 1) * WordSteps + CallRank ELSE 1
WebRank ==
  CASE pc = "handler" -> MaxAttempts * AttemptSteps + 2
    [] pc = "loop"    -> (MaxAttempts - attempt) * AttemptSteps + 1
    [] pc \in {"place", "fill"} ->
          (MaxAttempts - attempt - 1) * AttemptSteps + 1 + AttemptRank
    [] OTHER -> 0

\* For buildPuzzle: a dfs call at depth idx of a word of len letters makes
\* 8 iterations, each a continue or a dfs call one letter deeper, and then
\* returns.
RECURSIVE DfsSteps(_, _)
DfsSteps(idx, len) ==
  IF idx >= len - 1 THEN 0
  ELSE 1 + Len(BuildDIRS) * (1 + DfsSteps(idx + 1, len))
FrameRank(f, len) ==
  1 + (Len(BuildDIRS) + 1 - f.j) * (1 + DfsSteps(Len(f.visited), len))
RECURSIVE StackRank(_, _, _)
StackRank(st, i, len) ==
  IF i > Len(st) THEN 0 ELSE FrameRank(st[i], len) + StackRank(st, i + 1, len)
StartSteps(len) == 1 + DfsSteps(0, len)
BentRank ==
  LET len == Len(order[wi])
  IN  IF stack = << >> THEN Len(startCells) * StartSteps(len) + 1
      ELSE (Len(startCells) - 1) * StartSteps(len)
             + StackRank(stack, 1, len) + 1
BentSteps == N * N * StartSteps(N) + 1
BuildWordSteps == 2 * BentSteps + 3
BuildWordRank ==
  IF bpc = "word" THEN BuildWordSteps
  ELSE BentRank + (IF maxTurns = BentTurns THEN BentSteps + 1 ELSE 0)
BuildRank ==
  CASE bpc = "start" -> 2 + Len(bInput.words) * BuildWordSteps
    [] bpc \in {"word", "bent"} ->
          1 + (Len(order) - wi) * BuildWordSteps + BuildWordRank
    [] bpc = "fill" -> 1
    [] OTHER -> 0
Rank == WebRank + BuildRank

\* A build that has ended has returned or thrown, not both; the retrying
\* revisions return a puzzle of K answers.
HasEnded ==
  \/ /\ pc = "done"
     /\ Returned # Threw
     /\ (variant \in Retrying /\ Returned) => Len(ret.answers) = K
  \/ /\ bpc = "done"
     /\ (bret.kind = "puzzle") # (berr # NoError)

\* Every path of the bent search is self-avoiding and no longer than the
\* word, and so is the depth of the search.
SelfAvoiding ==
  /\ bpc = "bent" => Len(stack) < Len(order[wi])
  /\ \A i \in 1 .. Len(stack) :
        LET v == stack[i].visited
        IN  /\ Len(v) = i
            /\ \A a, b \in 1 .. Len(v) : a # b => v[a] # v[b]

\* C9.  Every build ends: each step of a build makes Rank, a natural
\* number, smaller, and a build that cannot take a step has ended, having
\* returned or thrown; generatePuzzleForDate makes at most MaxAttempts
\* attempts, and every path of buildPuzzle's bent search is self-avoiding
\* and at most as long as the word.
C9_EveryBuildEnds ==
  /\ [] ( /\ Rank \in Nat
          /\ (ENABLED NextAll) \/ HasEnded
          /\ Len(salts) <= MaxAttempts
          /\ SelfAvoiding )
  /\ [][Rank' < Rank]_vars

\* generatePuzzleForDate threw after its last attempt had failed.
C9_Witness ==
  /\ Done /\ err = ErrUnable
  /\ Len(salts) = MaxAttempts

\* C11.  Two calls of generatePuzzleForDate with the same date and the same
\* word list end alike: the second returns the puzzle the first returned
\* (the same answers in the same order, the same rows) or throws the error
\* the first threw; and the word list the caller passed is left as it was.
C11_SameArgumentsSamePuzzle ==
  /\ runs > 0 => allWords = input.words
  /\ (runs = 2 /\ Done) =>
        /\ ret = firstRun.ret
        /\ err = firstRun.err

\* The second of two calls returned a puzzle from its second attempt, with
\* answers that the shuffle had moved.
C11_Witness ==
  /\ runs = 2 /\ Done /\ Returned
  /\ Len(salts) = 2
  /\ ret.answers # SubSeq(input.words, 1, K)

\* Whether rows are n rows of n letters each.
IsSquareOfLetters(rows, n) ==
  /\ Len(rows) = n
  /\ \A y \in 1 .. Len(rows) :
        /\ Len(rows[y]) = n
        /\ \A x \in 1 .. Len(rows[y]) : rows[y][x] \in Alphabet

C13_FirstCall ==
  (pc' = "place" /\ (pc # "place" \/ k' # k)) =>
     /\ t' = 0
     /\ k' < 3 => desired' = targetTypes[k' + 1]
     /\ k' >= 3 => desired' = Null
\* SecondCall: a further call for the same word is made only for one of the
\* first three words, with no class, after the call with the required class
\* ran out of tries without writing anything.
C13_SecondCall ==
  (pc = "place" /\ pc' = "place" /\ k' = k /\ (desired' # desired \/ t' <= t)) =>
     /\ k < 3
     /\ desired = targetTypes[k + 1] /\ desired' = Null
     /\ ~TriesLeft(t) /\ t' = 0
     /\ wordTries = MaxTries
     /\ grid' = grid /\ usedTypes' = usedTypes
\* Failure: the attempt ends on a word (null or throw) only when the call
\* with no class ran out of tries: the second call for the first three
\* words, the only call for the others.
C13_Failure ==
  (pc = "place" /\ pc' \in {"loop", "done"}) =>
     /\ desired = Null /\ ~TriesLeft(t)
     /\ wordTries = (IF k < 3 THEN 2 * MaxTries ELSE MaxTries)

\* C13.  Within one attempt, an unrestricted placeWord call for one of the
\* first three words is made only after the class-restricted call for that
\* word returned failure, the attempt fails on such a word only after both
\* calls failed, and each later word gets exactly one call, unrestricted.
C13_FallbackAfterRestricted ==
  [][counting => (C13_FirstCall /\ C13_SecondCall /\ C13_Failure)]_vars

\* Both placeWord calls for one of the first three words have run out of
\* tries: the attempt is about to fail on it.
C13_Witness ==
  /\ counting /\ pc = "place" /\ k < 3
  /\ desired = Null /\ ~TriesLeft(t)
  /\ wordTries = 2 * MaxTries

\* The stage a build attempt is in: 1 placing the first three words, 2
\* placing the remaining words, 3 the random fill, 4 done; 0 when no
\* attempt runs (before the selection of an attempt's words, and after a
\* failure).
Stage ==
  CASE pc = "place" /\ k < 3   -> 1
    [] pc = "place" /\ k >= 3  -> 2
    [] pc = "fill"             -> 3
    [] pc = "done" /\ Returned -> 4
    [] OTHER                   -> 0

\* The steps between the stages, as C14 states them: the selection leads to
\* the placement of the first three words and does not fail; that placement
\* leads to the placement of the remaining words once three words are
\* placed, or fails; that one leads to the fill once K words are placed, or
\* fails; the fill leads to done and does not fail; nothing follows done.
C14_Edges ==
  /\ Len(salts') > Len(salts) =>
        /\ Stage = 0 /\ Stage' = 1
        /\ salts'[Len(salts')].outcome = "running"
        /\ Len(pick') = K /\ k' = 0 /\ placed' = << >>
  /\ (Stage = 0 /\ Stage' # 0) => Len(salts') > Len(salts)
  /\ Stage = 1 => (Stage' \in {0, 1, 2} /\ (Stage' = 2 => Len(placed') = 3))
  /\ Stage = 2 => (Stage' \in {0, 2, 3} /\ (Stage' = 3 => Len(placed') = K))
  /\ Stage = 3 => Stage' = 4
  /\ Stage # 4
  /\ Stage' < Stage =>
        (Stage \in {1, 2} /\ Stage' = 0 /\ salts'[Len(salts')].outcome = "null")

\* C14.  In the revisions with attempts, the stages of one attempt follow
\* each other in the order select, place with required classes, place the
\* rest, fill, done, none entered twice; the fill starts with all K words
\* placed; an attempt fails only while placing.
C14_StagesInOrder ==
  /\ [] ((variant \in Retrying /\ pc = "fill") =>
            (Len(placed) = K /\ k = K /\ Len(pick) = K))
  /\ [][(variant \in Retrying) => (C14_Edges)]_vars

\* Revision C starts the fill in its second attempt.
C14_Witness ==
  /\ variant = "C" /\ pc = "fill"
  /\ Len(salts) = 2 /\ Len(placed) = K

\* The step from the i-th cell of a path to the next one.
StepOf(p, i) == << p[i + 1][1] - p[i][1], p[i + 1][2] - p[i][2] >>
\* The direction changes of a path: the steps, from the second one on, whose
\* direction is not that of the step before.
TurnsOf(p) ==
  Cardinality({ i \in 2 .. (Len(p) - 1) : StepOf(p, i) # StepOf(p, i - 1) })
\* Pairwise distinct cells of the grid of side n, each one of the 8
\* neighbours of the one before.
IsSnake(p, n) ==
  /\ \A i \in 1 .. Len(p) : p[i] \in BCells(n)
  /\ \A i, j \in 1 .. Len(p) : i # j => p[i] # p[j]
  /\ \A i \in 1 .. (Len(p) - 1) :
        \E d \in 1 .. Len(BuildDIRS) : StepOf(p, i) = BuildDIRS[d]
\* The paths on which the word can lie in the grid g with at most T turns.
BentPaths(g, n, word, T) ==
  { p \in [1 .. Len(word) -> BCells(n)] :
      /\ IsSnake(p, n)
      /\ TurnsOf(p) <= T
      /\ \A i \in 1 .. Len(word) : g[p[i]] \in {Dot, word[i]} }

\* C15.  A call of tryPlaceBent returns true exactly when the grid it was
\* given has a path for the word with at most maxTurns turns, whatever the
\* shuffled orders of the start cells and directions; the path it commits
\* is one of those paths, and a call that returns false leaves the grid as
\* it was.
C15_BentFindsPathIffOneExists ==
  (bInput.call = "tryPlaceBent" /\ bpc = "done") =>
     /\ bret.kind \in {"true", "false"}
     /\ bret.kind = "true" =>
           /\ Len(bplaced) = 1
           /\ bplaced[1].path \in
                 BentPaths(bplaced[1].before, N, order[1], maxTurns)
     /\ bret.kind = "false" =>
           /\ bplaced = << >>
           /\ BentPaths(bgrid, N, order[1], maxTurns) = {}

\* tryPlaceBent returned true with maxTurns 2 on a grid that has no path
\* for the word with fewer than 2 turns.
C15_Witness ==
  /\ bInput.call = "tryPlaceBent" /\ bpc = "done" /\ bret.kind = "true"
  /\ maxTurns = 2
  /\ BentPaths(bplaced[1].before, N, order[1], 1) = {}

\* C16.  buildPuzzle throws on a word, whatever its length, only after
\* tryPlaceStraight, tryPlaceBent with maxTurns 2 and tryPlaceBent with
\* maxTurns 3 were called for it in that order and all returned false.
C16_UnplaceableAfterThreeEngines ==
  berr # NoError =>
     /\ bpc = "done"
     /\ tried = << Engine("straight", 0), Engine("bent", BentTurns),
                   Engine("bent", LaxTurns) >>

\* The placements committed by tryPlaceBent.
BentPlaced == { i \in 1 .. Len(bplaced) : bplaced[i].engine = "bent" }

\* C17.  Every path committed by tryPlaceBent has at most maxTurns
\* direction changes, and so has every path of the running search with the
\* turns the search counted for it.
C17_TurnsWithinBudget ==
  /\ \A i \in BentPlaced : TurnsOf(bplaced[i].path) <= bplaced[i].maxTurns
  /\ \A i \in 1 .. Len(stack) :
        /\ stack[i].turns = TurnsOf(stack[i].visited)
        /\ stack[i].turns <= maxTurns

\* tryPlaceBent, called with maxTurns 1, committed a path with one turn.
C17_Witness ==
  /\ bInput.call = "tryPlaceBent" /\ bret.kind = "true"
  /\ maxTurns = 1
  /\ TurnsOf(bplaced[1].path) = 1

\* C18.  Every path committed by tryPlaceBent, and every path of the
\* running search, consists of pairwise distinct cells of the grid, each one
\* of the 8 neighbours of the cell before it; a committed path has one cell
\* for each letter of the word.
C18_PathsSelfAvoiding ==
  /\ \A i \in BentPlaced :
        /\ IsSnake(bplaced[i].path, bInput.size)
        /\ Len(bplaced[i].path) = Len(bplaced[i].word)
  /\ \A i \in 1 .. Len(stack) : IsSnake(stack[i].visited, bInput.size)

\* The search is three cells deep on a path it reached after it had turned
\* back from another one.
C18_Witness ==
  /\ bInput.call = "tryPlaceBent" /\ bpc = "bent"
  /\ Len(stack) = 3
  /\ stack[1].j > 2 /\ stack[2].j > 2

\* C19.  A word placed by tryPlaceStraight occupies only cells that were
\* empty: none of them held a letter of a word placed before.
C19_StraightOnEmptyCells ==
  \A i \in 1 .. Len(bplaced) :
     bplaced[i].engine = "straight" =>
        \A j \in 1 .. Len(bplaced[i].path) :
           bplaced[i].before[bplaced[i].path[j]] = Dot

\* Whether a cell of buildPuzzle's grid holds a letter.
HoldsLetter(g, c) == c \in DOMAIN g /\ g[c] \in Alphabet

\* C20.  In buildPuzzle a cell that holds a letter holds that letter ever
\* after, through every tryPlaceStraight, tryPlaceBent and fillDots call;
\* hence every placed answer is spelled along its path in the grid at any
\* later moment and in the returned rows, and two answers share a cell only
\* where their letters agree.
C20_LettersStay ==
  /\ [] ( \A i \in 1 .. Len(bplaced) :
             \A j \in 1 .. Len(bplaced[i].path) :
                LET c == bplaced[i].path[j]
                IN  /\ bgrid[c] = bplaced[i].word[j]
                    /\ bret.kind = "puzzle" =>
                          bret.grid[c[2] + 1][c[1] + 1] = bplaced[i].word[j] )
  /\ [][ \A c \in DOMAIN bgrid :
            HoldsLetter(bgrid, c) => (HoldsLetter(bgrid', c) /\ bgrid'[c] = bgrid[c]) ]_vars

\* buildPuzzle returned a puzzle in which an answer placed by tryPlaceBent
\* goes through a cell of an answer placed before it.
C20_Witness ==
  /\ bret.kind = "puzzle"
  /\ \E i \in BentPlaced :
        \E j \in 1 .. Len(bplaced[i].path) :
           bplaced[i].before[bplaced[i].path[j]] # Dot

\* C21.  The fill writes the cells that are empty when it starts and no
\* other: in the rows tryGenerate returns, and in the grid fillDots leaves,
\* every cell that held a placed letter holds that letter still, and every
\* cell holds a letter.
C21_FillWritesEmptyCellsOnly ==
  [][ /\ (pc = "fill" /\ pc' = "done") =>
           \A c \in Cells :
              /\ ret'.grid[c[2] + 1][c[1] + 1] \in Alphabet
              /\ grid[c] # Null => ret'.grid[c[2] + 1][c[1] + 1] = grid[c]
      /\ (bpc = "fill" /\ bpc' = "done") =>
           \A c \in BCells(bInput.size) :
              /\ bgrid'[c] \in Alphabet
              /\ bgrid[c] # Dot => bgrid'[c] = bgrid[c]
    ]_vars

\* tryGenerate returned rows made from a grid that held placed letters and
\* empty cells.
C21_Witness ==
  /\ Returned
  /\ \E c \in Cells : grid[c] = Null
  /\ \E c \in Cells : grid[c] # Null /\ ret.grid[c[2] + 1][c[1] + 1] = grid[c]

\* C22.  Of two calls whose steps interleave in any order, one with the
\* date of a call that ran alone and one with the same or another date,
\* each call with that date ends as the call alone did (the same puzzle, or
\* the same error), and the word list both were given is left as it was.
C22_InterleavedAsAlone ==
  /\ runs > 0 => allWords = input.words
  /\ (runs = 2 /\ Done /\ dateStr = "date") =>
        (ret = firstRun.ret /\ err = firstRun.err)
  /\ (runs = 2 /\ other.pc = "done" /\ other.dateStr = "date") =>
        (other.ret = firstRun.ret /\ other.err = firstRun.err)

\* Two calls for different dates took turns and are over: the one with the
\* date of the call that ran alone returned a puzzle, the other one ended
\* otherwise.
C22_Witness ==
  /\ runs = 2 /\ Done /\ Returned
  /\ dateStr = "date"
  /\ other.pc = "done"
  /\ other.dateStr # dateStr
  /\ other.ret # ret

\* The number of entries of the list a that are w.
CountOf(a, w) == Cardinality({ i \in 1 .. Len(a) : a[i] = w })

\* Whether p holds the entries of a, each as often as a does.
IsPermutation(p, a) ==
  /\ Len(p) = Len(a)
  /\ \A i \in 1 .. Len(a) : CountOf(p, a[i]) = CountOf(a, a[i])

\* The entries of pool that no earlier entry equals, in pool's order, up
\* to K of them.
FirstDistinct(pool) ==
  LET firsts == { i \in 1 .. Len(pool) :
                    \A j \in 1 .. (i - 1) : pool[j] # pool[i] }
      n      == IF Cardinality(firsts) < K THEN Cardinality(firsts) ELSE K
  IN  [m \in 1 .. n |->
         pool[CHOOSE i \in firsts :
                Cardinality({ j \in firsts : j <= i }) = m]]

\* C23.  Whatever the draws, the shuffle of the corpus is a permutation of
\* it and leaves the list it was given as it was; the words an attempt goes
\* on with are the first K pairwise distinct entries of a shuffle of the
\* corpus, each of them a corpus word, none of them picked twice.
C23_PickFirstDistinctOfShuffle ==
  /\ [] ((pc = "loop" /\ input.kind = "direct") =>
            /\ allWords = input.words
            /\ \A js \in ShuffleDraws(Len(allWords)) :
                  IsPermutation(seededShuffle(allWords, js), allWords))
  /\ [][ (pc = "loop" /\ pc' \in { "place", "fill" }) =>
            /\ allWords' = allWords
            /\ Len(pick') = K
            /\ \A i \in 1 .. Len(pick') :
                  /\ InSeq(pick'[i], allWords)
                  /\ \A j \in 1 .. Len(pick') : pick'[i] = pick'[j] => i = j
            /\ \E js \in ShuffleDraws(Len(allWords)) :
                  pick' = FirstDistinct(seededShuffle(allWords, js))
       ]_vars

\* An attempt goes on with K words picked from a corpus in which a word
\* repeats, the shuffle having moved words.
C23_Witness ==
  /\ pc \in { "place", "fill" }
  /\ \E i, j \in 1 .. Len(allWords) : i # j /\ allWords[i] = allWords[j]
  /\ Len(pick) = K
  /\ pick # FirstDistinct(allWords)

\* C24.  Whatever its argument, validateAndRepair ends by returning
\* {ok: true, value} or {ok: false, reason}: it throws nothing.
C24_NeverThrows ==
  vpc = "done" => vret.kind \in { "ok", "reject" }

\* The greatest of the numbers of the set S (0 if there is none).
MaxOf(S) == IF S = { } THEN 0 ELSE CHOOSE m \in S : \A x \in S : x <= m

\* The letters of the value row, in upper case.
LettersOf(row) ==
  LET cs == IF row.t = "string" THEN row.chars ELSE << >>
  IN  SelectSeq([i \in 1 .. Len(cs) |-> Upper(cs[i])],
                LAMBDA c : c \in Alphabet)

\* The size of the value returned for the argument j: the declared size if
\* it is an integer of at least 2, and otherwise the greater of the number
\* of rows and the length of the longest row.
SizeFor(j) ==
  IF j.size.t = "number" /\ j.size.int /\ j.size.n >= 2 THEN j.size.n
  ELSE MaxOf({ Len(j.grid.items) }
               \cup { Len(LettersOf(j.grid.items[i])) :
                        i \in 1 .. Len(j.grid.items) })

\* C25.  The value validateAndRepair returns has the size SizeFor gives and
\* a grid of that many rows of that many letters each, and each row begins
\* with the letters of the row it was given (as many of them as fit).
C25_SquareOfDeclaredOrInferredSize ==
  (vpc = "done" /\ vret.kind = "ok") =>
     LET v  == vret.value
         sz == SizeFor(json)
     IN  /\ v.size = sz
         /\ Len(v.grid) = sz
         /\ \A i \in 1 .. Len(v.grid) :
               /\ Len(v.grid[i]) = sz
               /\ \A x \in 1 .. Len(v.grid[i]) : v.grid[i][x] \in Alphabet
               /\ i <= Len(json.grid.items) =>
                    LET given == LettersOf(json.grid.items[i])
                    IN  \A x \in 1 .. Len(given) :
                           x <= sz => v.grid[i][x] = given[x]

\* A grid of two rows declared of size 3 was accepted: the third row is
\* made of random letters.
C25_Witness ==
  /\ vpc = "done" /\ vret.kind = "ok" /\ vpass = 1
  /\ json.size = Num(3)
  /\ Len(json.grid.items) = 2
  /\ Len(vret.value.grid) = 3
  /\ vrand >= 3

\* C26.  validateAndRepair called on a value it returned returns that
\* value (the same theme, size, grid and answers), and draws no random
\* letter.
C26_Idempotent ==
  (vpass = 2 /\ vpc = "done") => (vret = vfirst /\ vrand = 0)

\* The second call is over, on a value that the first call had to repair
\* with random letters, with a trimmed theme and normalized answers.
C26_Witness ==
  /\ vpass = 2 /\ vpc = "done" /\ vret.kind = "ok"
  /\ vret.value.theme = << "t" >>
  /\ Len(vret.value.answers) = 2
  /\ \E i \in 1 .. Len(vret.value.grid) : vret.value.grid[i] = << "B", "B", "B" >>

\* Whether the argument j has no answer left once the answers are
\* normalized: its answers field holds no value with a letter in it.
NoAnswerRemains(j) ==
  \A i \in 1 .. Len(j.answers.items) : LettersOf(j.answers.items[i]) = << >>

\* C27.  For an object, validateAndRepair returns {ok: false} exactly when
\* the grid is missing, not an array or empty, or no answer remains after
\* normalization.
C27_RejectedExactlyWhen ==
  (vpc = "done" /\ json.t = "object") =>
     (vret.kind = "reject" <=>
        \/ json.grid.t # "array"
        \/ json.grid.items = << >>
        \/ NoAnswerRemains(json))

\* C28.  A placement call that fails writes nothing: while placeWord goes
\* from one iteration to the next without a hit, and when it returns null
\* and the unrestricted call begins, the grid stays as it is; while
\* tryPlaceStraight and tryPlaceBent search, explore and give up partial
\* paths, and when they return false, buildPuzzle's grid stays as it is.
C28_FailureWritesNothing ==
  [][ /\ (pc = "place" /\ pc' = "place" /\ placed' = placed) => grid' = grid
      /\ (bpc \in { "word", "bent" } /\ bplaced' = bplaced) => bgrid' = bgrid
    ]_vars

\* buildPuzzle threw after the three engines had failed on a word, with the
\* words placed before it still in the grid as they were written.
C28_Witness ==
  /\ berr.text = "Failed to place word"
  /\ bplaced # << >>
  /\ Len(tried) = 3
  /\ bgrid = WritePath(bplaced[Len(bplaced)].before,
                       bplaced[Len(bplaced)].path, bplaced[Len(bplaced)].word)

\* C29.  An attempt begins with an empty grid and no word placed, and the
\* last attempt of generatePuzzleForDate, made after the attempts before it
\* have failed, ends as tryGenerate ends when it is called on its own with
\* the same date, word list and salt: with the same puzzle, or with none.
C29_AttemptsStartFresh ==
  /\ [] ((runs = 2 /\ Done /\ Len(salts) = MaxAttempts) =>
            (ret = firstRun.ret /\ err = firstRun.err))
  /\ [][ (pc = "loop" /\ pc' \in { "place", "fill" }) =>
            (grid' = EmptyGrid /\ placed' = << >> /\ usedTypes' = << >>)
       ]_vars

\* generatePuzzleForDate returned the puzzle of its last attempt, the
\* attempts before it having failed after they had made tries.
C29_Witness ==
  /\ runs = 2 /\ Done /\ Returned
  /\ Len(salts) = MaxAttempts
  /\ \A i \in 1 .. (MaxAttempts - 1) : salts[i].outcome = "null"
  /\ ret = firstRun.ret

\* C30.  The count main reports is the number of writes of a puzzle file;
\* a file is written only for a row that has its date, theme and words and
\* whose build returned, under that row's date; and when the loop is over
\* it has passed every row, the rows after a failed one as well, each row
\* that lacks data or whose build threw having no file.
C30_LoopGoesOnAndCounts ==
  /\ okCount = Len(outFiles)
  /\ \A f \in 1 .. Len(outFiles) :
        LET w == outFiles[f]
        IN  /\ w.row < mi
            /\ ~LacksData(themes[w.row])
            /\ w.date = themes[w.row].date
            /\ w.puzzle.kind = "puzzle"
            /\ \A f2 \in 1 .. Len(outFiles) : outFiles[f2].row = w.row => f2 = f
  /\ mpc = "end" =>
        /\ mi = Len(themes) + 1
        /\ Len(logged) = Len(themes)
        /\ \A i \in 1 .. Len(themes) :
              /\ LacksData(themes[i]) =>
                    (logged[i] = "skipped"
                       /\ \A f \in 1 .. Len(outFiles) : outFiles[f].row # i)
              /\ logged[i] = "failed" =>
                    \A f \in 1 .. Len(outFiles) : outFiles[f].row # i
              /\ logged[i] = "written" =>
                    \E f \in 1 .. Len(outFiles) : outFiles[f].row = i

\* The loop is over a file whose first row lacks its date and whose third
\* row has a word longer than the grid: the second and the fourth row were
\* built and written, and the count is 2.
C30_Witness ==
  /\ mpc = "end"
  /\ logged = << "skipped", "written", "failed", "written" >>
  /\ okCount = 2
  /\ berr = NoError

=============================================================================
